---------------------------- MODULE Spec2Model ----------------------------
(***************************************************************************)
(* A model of sync_addon_metadata_translations: the tool that keeps the    *)
(* localized metadata of a Kodi add-on (summary, description, disclaimer,  *)
(* lifecyclestate) in step between addon.xml and the per-language po       *)
(* files.                                                                  *)
(*                                                                         *)
(* Text is modelled as the program sees it: a string is a sequence of      *)
(* one-character strings, a file is the list of lines readlines() returns  *)
(* (each line keeps its "\n"), and the regular expressions and the str     *)
(* methods are operators over these sequences.                             *)
(***************************************************************************)
EXTENDS Naturals, Integers, Sequences, FiniteSets, TLC

VARIABLES
    \* main(): the command line, the file system and the interpreter state
    args,           \* argparse namespace: po_to_xml, xml_to_po, multiple_addons, version, path
    disk,           \* the directories and the files under the current directory
    directories,    \* main(): the list the for loop walks
    dir_i,          \* main(): position of the for loop in directories
    pc,             \* main(): the statement about to run
    _addon_xml,     \* main(): dict returned by get_addon_xml()
    _po_index,      \* main(): list returned by generate_po_index()
    exit_code,      \* the process exit status, NoExit while running
    stdout,         \* the progress lines printed so far in this run
    run,            \* how many times the tool has been started
    disk_first,     \* the file system as the first run left it
    ptx_log,        \* what the last po_to_xml call read, built and wrote
    xtp_log,        \* what the last xml_to_po call read, built and wrote
    \* escape_characters() applied on its own
    esc_input, esc_value, esc_trace,
    \* merge_items() applied on its own
    mrg_one, mrg_two, mrg_payload, mrg_done,
    \* remove_po_lines(), get_po_insert_index(), format_po_lines() applied on
    \* their own: the lines given, the function called, what it returned
    pol_lines, pol_call, pol_result,
    \* insert_po_lines() applied on its own: the index and the dict given, the
    \* index returned, the index given as the call leaves it
    ins_po_index, ins_po_lines, ins_payload, ins_argument

vars == <<args, disk, directories, dir_i, pc, _addon_xml, _po_index, exit_code,
          stdout, run, disk_first, ptx_log, xtp_log,
          esc_input, esc_value, esc_trace,
          mrg_one, mrg_two, mrg_payload, mrg_done,
          pol_lines, pol_call, pol_result,
          ins_po_index, ins_po_lines, ins_payload, ins_argument>>

main_vars == <<args, disk, directories, dir_i, pc, _addon_xml, _po_index, exit_code,
               stdout, run, disk_first, ptx_log, xtp_log>>
esc_vars == <<esc_input, esc_value, esc_trace>>
mrg_vars == <<mrg_one, mrg_two, mrg_payload, mrg_done>>
pol_vars == <<pol_lines, pol_call, pol_result>>
ins_vars == <<ins_po_index, ins_po_lines, ins_payload, ins_argument>>

(***************************************************************************)
(* Bounds of the model.                                                    *)
(***************************************************************************)
MaxTokens == 3      \* tokens in a text handed to escape_characters on its own
MaxEscapes == 2     \* escape_characters calls chained on one text
MaxItems == 2       \* items in each list handed to merge_items on its own
MaxRuns == 2        \* times the tool is started on the same directory
MaxAddons == 2      \* add-on directories under the path in -multi mode
MaxPieces == 4      \* pieces of a po file handed to the po line functions

(***************************************************************************)
(* Characters. A str of the program is a sequence of characters, each a    *)
(* one-character string. Two characters of the first 256 cannot be written *)
(* that way and are named by their code point instead, as are the          *)
(* characters above U+00FF the program can meet as whitespace or produce   *)
(* with str.upper().                                                       *)
(***************************************************************************)
\* chr(n) for n in 0..255 is Latin1[n + 1]; chr(0) and the grave accent chr(96)
\* are named by their code point
Latin1 == <<
    "U+0000", "", "", "", "", "", "", "", "", "\t", "\n", "", "\f", "\r", "", "",
    "", "", "", "", "", "", "", "", "", "", "", "", "", "", "", "",
    " ", "!", "\"", "#", "$", "%", "&", "'", "(", ")", "*", "+", ",", "-", ".", "/",
    "0", "1", "2", "3", "4", "5", "6", "7", "8", "9", ":", ";", "<", "=", ">", "?",
    "@", "A", "B", "C", "D", "E", "F", "G", "H", "I", "J", "K", "L", "M", "N", "O",
    "P", "Q", "R", "S", "T", "U", "V", "W", "X", "Y", "Z", "[", "\\", "]", "^", "_",
    "U+0060", "a", "b", "c", "d", "e", "f", "g", "h", "i", "j", "k", "l", "m", "n", "o",
    "p", "q", "r", "s", "t", "u", "v", "w", "x", "y", "z", "{", "|", "}", "~", "",
    "", "", "", "", "", "", "", "", "", "", "", "", "", "", "", "",
    "", "", "", "", "", "", "", "", "", "", "", "", "", "", "", "",
    " ", "¡", "¢", "£", "¤", "¥", "¦", "§", "¨", "©", "ª", "«", "¬", "­", "®", "¯",
    "°", "±", "²", "³", "´", "µ", "¶", "·", "¸", "¹", "º", "»", "¼", "½", "¾", "¿",
    "À", "Á", "Â", "Ã", "Ä", "Å", "Æ", "Ç", "È", "É", "Ê", "Ë", "Ì", "Í", "Î", "Ï",
    "Ð", "Ñ", "Ò", "Ó", "Ô", "Õ", "Ö", "×", "Ø", "Ù", "Ú", "Û", "Ü", "Ý", "Þ", "ß",
    "à", "á", "â", "ã", "ä", "å", "æ", "ç", "è", "é", "ê", "ë", "ì", "í", "î", "ï",
    "ð", "ñ", "ò", "ó", "ô", "õ", "ö", "÷", "ø", "ù", "ú", "û", "ü", "ý", "þ", "ÿ">>

\* the characters above U+00FF and their code points: the capitals str.upper()
\* gives for U+00FF and U+00B5, and the whitespace of str.isspace()
Wide == <<
    <<"U+0178", 376>>, <<"U+039C", 924>>, <<"U+1680", 5760>>, <<"U+2000", 8192>>,
    <<"U+2001", 8193>>, <<"U+2002", 8194>>, <<"U+2003", 8195>>, <<"U+2004", 8196>>,
    <<"U+2005", 8197>>, <<"U+2006", 8198>>, <<"U+2007", 8199>>, <<"U+2008", 8200>>,
    <<"U+2009", 8201>>, <<"U+200A", 8202>>, <<"U+2028", 8232>>, <<"U+2029", 8233>>,
    <<"U+202F", 8239>>, <<"U+205F", 8287>>, <<"U+3000", 12288>>>>

\* the code point of c in the two tables
OrdIn(c, latin1, wide) ==
    IF \E i \in 1..Len(latin1) : latin1[i] = c
    THEN (CHOOSE i \in 1..Len(latin1) : latin1[i] = c) - 1
    ELSE wide[CHOOSE i \in 1..Len(wide) : wide[i][1] = c][2]

\* ord(c)
Ord(c) == OrdIn(c, Latin1, Wide)

(***************************************************************************)
(* str methods.                                                            *)
(***************************************************************************)
\* s[i:i+len(p)] == p, 1-based
IsPrefixAt(s, i, p) ==
    /\ i + Len(p) - 1 <= Len(s)
    /\ \A k \in 1..Len(p) : s[i + k - 1] = p[k]

\* s.startswith(p)
StartsWith(s, p) == IsPrefixAt(s, 1, p)

\* p in s
Contains(s, p) == \E i \in 1..(Len(s) + 1) : IsPrefixAt(s, i, p)

\* s.replace(old, new): every non-overlapping occurrence, left to right
RECURSIVE ReplaceFrom(_, _, _, _)
ReplaceFrom(s, i, old, new) ==
    IF i > Len(s) THEN <<>>
    ELSE IF IsPrefixAt(s, i, old)
         THEN new \o ReplaceFrom(s, i + Len(old), old, new)
         ELSE <<s[i]>> \o ReplaceFrom(s, i + 1, old, new)

Replace(s, old, new) == ReplaceFrom(s, 1, old, new)

\* the characters c.isspace() is true for; the regex class \s and str.strip()
\* take the same ones: U+0009 to U+000D, U+001C to U+001F, the space, U+0085,
\* U+00A0 and the spaces above U+00FF
Whitespace == {
    "\t", "\n", "", "\f", "\r", "", "", "", "", " ", "", " ",
    "U+1680", "U+2000", "U+2001", "U+2002", "U+2003", "U+2004",
    "U+2005", "U+2006", "U+2007", "U+2008", "U+2009", "U+200A",
    "U+2028", "U+2029", "U+202F", "U+205F", "U+3000"}

\* line.strip() == ''
IsBlank(s) == \A i \in 1..Len(s) : s[i] \in Whitespace

\* ''.join(lines)
RECURSIVE Join(_)
Join(lines) == IF lines = <<>> THEN <<>> ELSE Head(lines) \o Join(Tail(lines))

(***************************************************************************)
(* Program constants.                                                      *)
(***************************************************************************)
CTXT_DESCRIPTION == <<"A", "d", "d", "o", "n", " ", "D", "e", "s", "c", "r", "i", "p", "t",
    "i", "o", "n">>
CTXT_DISCLAIMER == <<"A", "d", "d", "o", "n", " ", "D", "i", "s", "c", "l", "a", "i", "m", "e",
    "r">>
CTXT_SUMMARY == <<"A", "d", "d", "o", "n", " ", "S", "u", "m", "m", "a", "r", "y">>
CTXT_LIFECYCLESTATE == <<"A", "d", "d", "o", "n", " ", "L", "i", "f", "e", "c", "y", "c", "l",
    "e", "s", "t", "a", "t", "e">>

\* the reference language code, 'en_GB'
LANG_EN_GB == <<"e", "n", "_", "G", "B">>

\* a language code other than the default one
LANG_DE_DE == <<"d", "e", "_", "D", "E">>

\* the character entities and the po quote escape used by escape_characters
S_QUOT == <<"&", "q", "u", "o", "t", ";">>
S_APOS == <<"&", "a", "p", "o", "s", ";">>
S_LT == <<"&", "l", "t", ";">>
S_GT == <<"&", "g", "t", ";">>
S_AMP == <<"&", "a", "m", "p", ";">>
S_BSQ == <<"\\", "\"">>

(***************************************************************************)
(* escape_characters(source, dest)                                         *)
(***************************************************************************)
\* dest == 'po': '&quot;' becomes '\"'
EscapePoString(string) == Replace(string, S_QUOT, S_BSQ)

\* dest == 'xml': the five replace calls, in the order the code chains them
EscapeXmlString(string) ==
    Replace(Replace(Replace(Replace(Replace(string,
        <<"\"">>, S_QUOT), <<"'">>, S_APOS), <<"<">>, S_LT), <<">">>, S_GT), <<"&">>, S_AMP)

\* source is a list of (lang_code, string) pairs
escape_characters(source, dest) ==
    LET d == IF dest \notin {"xml", "po"} THEN "po" ELSE dest
    IN  IF d = "po"
        THEN [i \in 1..Len(source) |-> <<source[i][1], EscapePoString(source[i][2])>>]
        ELSE [i \in 1..Len(source) |-> <<source[i][1], EscapeXmlString(source[i][2])>>]

(***************************************************************************)
(* merge_items(group_one, group_two)                                       *)
(***************************************************************************)
\* merge_items that appends every item of group_two (a variant of the code)
MergeAppendAll(group_one, group_two) == group_one \o group_two

\* the for loop: payload grows by the items whose code it does not hold yet
RECURSIVE MergeInto(_, _)
MergeInto(payload, group_two) ==
    IF group_two = <<>> THEN payload
    ELSE LET group_item == Head(group_two)
         IN  IF ~ \E k \in 1..Len(payload) : payload[k][1] = group_item[1]
             THEN MergeInto(Append(payload, group_item), Tail(group_two))
             ELSE MergeInto(payload, Tail(group_two))

merge_items(group_one, group_two) == MergeInto(group_one, group_two)

\* the language codes of a list of (language_code, text) items
Codes(items) == { items[i][1] : i \in 1..Len(items) }

\* how many items of the list carry the code
CountCode(items, code) == Cardinality({ i \in 1..Len(items) : items[i][1] = code })

(***************************************************************************)
(* String literals of the manifest side.                                   *)
(***************************************************************************)
S_DESCRIPTION_OPEN == <<"<", "d", "e", "s", "c", "r", "i", "p", "t", "i", "o", "n", " ", "l",
    "a", "n", "g", "=">>
S_DISCLAIMER_OPEN == <<"<", "d", "i", "s", "c", "l", "a", "i", "m", "e", "r", " ", "l", "a",
    "n", "g", "=">>
S_SUMMARY_OPEN == <<"<", "s", "u", "m", "m", "a", "r", "y", " ", "l", "a", "n", "g", "=">>
S_LIFECYCLESTATE_OPEN == <<"<", "l", "i", "f", "e", "c", "y", "c", "l", "e", "s", "t", "a",
    "t", "e">>
S_LIFECYCLESTATE_SP == <<"<", "l", "i", "f", "e", "c", "y", "c", "l", "e", "s", "t", "a", "t",
    "e", " ">>
S_DESCRIPTION_CLOSE == <<"<", "/", "d", "e", "s", "c", "r", "i", "p", "t", "i", "o", "n", ">">>
S_DISCLAIMER_CLOSE == <<"<", "/", "d", "i", "s", "c", "l", "a", "i", "m", "e", "r", ">">>
S_SUMMARY_CLOSE == <<"<", "/", "s", "u", "m", "m", "a", "r", "y", ">">>
S_LIFECYCLESTATE_CLOSE == <<"<", "/", "l", "i", "f", "e", "c", "y", "c", "l", "e", "s", "t",
    "a", "t", "e", ">">>
S_LANG_EQ == <<"l", "a", "n", "g", "=">>
S_TYPE_EQ == <<"t", "y", "p", "e", "=">>
S_EXTENSION_OPEN == <<"<", "e", "x", "t", "e", "n", "s", "i", "o", "n">>
S_ADDON_METADATA == <<"x", "b", "m", "c", ".", "a", "d", "d", "o", "n", ".", "m", "e", "t",
    "a", "d", "a", "t", "a">>
S_EXTENSION_CLOSE == <<"<", "/", "e", "x", "t", "e", "n", "s", "i", "o", "n", ">">>

\* the element names RE_METADATA_WHITESPACE lists
MetadataElementNames == {
    <<"n", "e", "w", "s">>,
    <<"a", "s", "s", "e", "t", "s">>,
    <<"p", "l", "a", "t", "f", "o", "r", "m">>,
    <<"l", "i", "c", "e", "n", "s", "e">>,
    <<"s", "o", "u", "r", "c", "e">>,
    <<"f", "o", "r", "u", "m">>,
    <<"r", "e", "u", "s", "e", "l", "a", "n", "g", "u", "a", "g", "e", "i", "n", "v", "o",
      "k", "e", "r">> }

\* the value None where a str is expected: no str the program tests is empty
None == <<>>

(***************************************************************************)
(* The regular expressions, as the re module matches them (re.MULTILINE).  *)
(***************************************************************************)
\* ["\']
Quotes == {"\"", "'"}

\* ^ matches at the start of the string and after every newline
AtLineStart(c, p) == p = 1 \/ c[p - 1] = "\n"

\* the first position from p on whose character is in S, Len(c) + 1 if none
FirstIn(c, p, S) ==
    LET hits == { q \in p..Len(c) : c[q] \in S }
    IN  IF hits = {} THEN Len(c) + 1 ELSE CHOOSE q \in hits : \A r \in hits : q <= r

\* the first position from p on whose character is not in S, Len(c) + 1 if none
FirstNotIn(c, p, S) ==
    LET hits == { q \in p..Len(c) : c[q] \notin S }
    IN  IF hits = {} THEN Len(c) + 1 ELSE CHOOSE q \in hits : \A r \in hits : q <= r

\* \s*?$ from p: the position where the lazy whitespace stops at an end of
\* line, 0 if a character that is not whitespace comes first
LineEndFrom(c, p) ==
    LET q == FirstNotIn(c, p, Whitespace \ {"\n"})
    IN  IF q > Len(c) \/ c[q] = "\n" THEN q ELSE 0

NoMatch == [ok |-> FALSE]

\* (?P<language_code>[^"\']+?)["\']<gt>(?P<body>[^<]+?)<close>\s*?$ from l0, where
\* <gt> is '>' (strict) or [^>]*> ; whitespace is the group already matched
MatchLangBodyClose(c, whitespace, l0, strict, close) ==
    LET l1 == FirstIn(c, l0, Quotes)
        g  == IF strict THEN l1 + 1 ELSE FirstIn(c, l1 + 1, {">"})
        b0 == g + 1
        b1 == FirstIn(c, b0, {"<"})
        z  == LineEndFrom(c, b1 + Len(close))
    IN  IF /\ l1 <= Len(c) /\ l1 > l0
           /\ g <= Len(c) /\ c[g] = ">"
           /\ b1 > b0
           /\ IsPrefixAt(c, b1, close)
           /\ z > 0
        THEN [ok |-> TRUE,
              groups |-> <<whitespace, SubSeq(c, l0, l1 - 1), SubSeq(c, b0, b1 - 1)>>,
              end |-> z]
        ELSE NoMatch

\* RE_DESCRIPTION, RE_DISCLAIMER, RE_SUMMARY tried at the line start p:
\* ^(?P<whitespace>\s*?)<open>["\'] and the rest
MatchElement(c, p, open, close) ==
    LET w == FirstNotIn(c, p, Whitespace)
        q == w + Len(open)
    IN  IF IsPrefixAt(c, w, open) /\ q <= Len(c) /\ c[q] \in Quotes
        THEN MatchLangBodyClose(c, SubSeq(c, p, w - 1), q + 1, TRUE, close)
        ELSE NoMatch

\* RE_LIFECYCLESTATE and RE_LIFECYCLESTATE_TYPE tried at the line start p:
\* ^(?P<whitespace>\s*?)<lifecyclestate.+?<attr>["\'](?P<value>[^"\']+?)["\'][^>]*>
\* (?P<body>[^<]+?)</lifecyclestate>\s*?$ ; .+? grows until the rest matches
MatchLifecyclestate(c, p, attr) ==
    LET w == FirstNotIn(c, p, Whitespace)
        a == w + Len(S_LIFECYCLESTATE_OPEN)
        nl == FirstIn(c, a, {"\n"})
        tries == { k \in (a + 1)..(nl - 1) :
                     /\ IsPrefixAt(c, k, attr)
                     /\ k + Len(attr) <= Len(c)
                     /\ c[k + Len(attr)] \in Quotes
                     /\ MatchLangBodyClose(c, SubSeq(c, p, w - 1), k + Len(attr) + 1,
                                           FALSE, S_LIFECYCLESTATE_CLOSE).ok }
    IN  IF IsPrefixAt(c, w, S_LIFECYCLESTATE_OPEN) /\ tries # {}
        THEN LET k == CHOOSE k \in tries : \A r \in tries : k <= r
             IN  MatchLangBodyClose(c, SubSeq(c, p, w - 1), k + Len(attr) + 1,
                                    FALSE, S_LIFECYCLESTATE_CLOSE)
        ELSE NoMatch

\* RE_METADATA_WHITESPACE tried at the line start p:
\* ^(?P<whitespace>\s*?)<name>[^<]*?(?:</name>)?\s*?$
MatchMetadataWhitespace(c, p) ==
    LET w == FirstNotIn(c, p, Whitespace)
        opens == { n \in MetadataElementNames : IsPrefixAt(c, w, <<"<">> \o n \o <<">">>) }
        n == CHOOSE n \in opens : TRUE
        a == w + Len(n) + 2
        q == FirstIn(c, a, {"<", "\n"})
        closes == { m \in MetadataElementNames : IsPrefixAt(c, q, <<"<", "/">> \o m \o <<">">>) }
        m == CHOOSE m \in closes : TRUE
        z == IF q > Len(c) \/ c[q] = "\n" THEN q
             ELSE IF closes = {} THEN 0
             ELSE LineEndFrom(c, q + Len(m) + 3)
    IN  IF opens # {} /\ z > 0
        THEN [ok |-> TRUE, groups |-> SubSeq(c, p, w - 1), end |-> z]
        ELSE NoMatch

\* which expression an extractor uses
RE_DESCRIPTION == "RE_DESCRIPTION"
RE_DISCLAIMER == "RE_DISCLAIMER"
RE_SUMMARY == "RE_SUMMARY"
RE_LIFECYCLESTATE == "RE_LIFECYCLESTATE"
RE_LIFECYCLESTATE_TYPE == "RE_LIFECYCLESTATE_TYPE"
RE_METADATA_WHITESPACE == "RE_METADATA_WHITESPACE"

MatchAt(re, c, p) ==
    CASE re = RE_DESCRIPTION -> MatchElement(c, p, S_DESCRIPTION_OPEN, S_DESCRIPTION_CLOSE)
      [] re = RE_DISCLAIMER -> MatchElement(c, p, S_DISCLAIMER_OPEN, S_DISCLAIMER_CLOSE)
      [] re = RE_SUMMARY -> MatchElement(c, p, S_SUMMARY_OPEN, S_SUMMARY_CLOSE)
      [] re = RE_LIFECYCLESTATE -> MatchLifecyclestate(c, p, S_LANG_EQ)
      [] re = RE_LIFECYCLESTATE_TYPE -> MatchLifecyclestate(c, p, S_TYPE_EQ)
      [] re = RE_METADATA_WHITESPACE -> MatchMetadataWhitespace(c, p)

\* the next line start after position p, Len(c) + 2 if there is none
NextLineStart(c, p) ==
    LET nl == FirstIn(c, p, {"\n"})
    IN  IF nl >= Len(c) THEN Len(c) + 2 ELSE nl + 1

\* re.findall(content): the groups of the matches, leftmost first, each search
\* starting where the last match ended; m is the outcome of the match tried at p
RECURSIVE FindAllFrom(_, _, _)
FindAllNext(re, c, p, m) ==
    IF m.ok
    THEN <<m.groups>> \o FindAllFrom(re, c, NextLineStart(c, m.end))
    ELSE FindAllFrom(re, c, NextLineStart(c, p))

FindAllFrom(re, c, p) ==
    IF p > Len(c) THEN <<>> ELSE FindAllNext(re, c, p, MatchAt(re, c, p))

FindAll(re, c) == FindAllFrom(re, c, 1)

(***************************************************************************)
(* The manifest side: extraction, stripping, anchor, rendering.            *)
(***************************************************************************)
\* addon_xml.get('content', '')
GetContent(addon_xml) ==
    IF "content" \in DOMAIN addon_xml THEN addon_xml.content ELSE <<>>

\* [(<whitespace>, <language code>, <body>), ...]
get_xml_descriptions(addon_xml) == FindAll(RE_DESCRIPTION, GetContent(addon_xml))

get_xml_disclaimers(addon_xml) == FindAll(RE_DISCLAIMER, GetContent(addon_xml))

get_xml_summaries(addon_xml) == FindAll(RE_SUMMARY, GetContent(addon_xml))

get_xml_lifecyclestates(addon_xml) == FindAll(RE_LIFECYCLESTATE, GetContent(addon_xml))

\* RE_LIFECYCLESTATE_TYPE.search(...): group 'type' of the first match, or None
get_lifecyclestate_type(addon_xml) ==
    LET found_type == FindAll(RE_LIFECYCLESTATE_TYPE, GetContent(addon_xml))
    IN  IF found_type # <<>> THEN found_type[1][2] ELSE None

\* the list comprehension [(language_code, body) for _, language_code, body in ...]
DropWhitespace(found) == [i \in 1..Len(found) |-> <<found[i][2], found[i][3]>>]

\* a line xml_remove_elements drops
IsManagedLine(line) ==
    \/ Contains(line, S_DESCRIPTION_OPEN)
    \/ Contains(line, S_DISCLAIMER_OPEN)
    \/ Contains(line, S_SUMMARY_OPEN)
    \/ Contains(line, S_LIFECYCLESTATE_SP)

\* xml_remove_elements: the dict it is given is changed in place; its 'content'
\* is left as it was read
xml_remove_elements(addon_xml) ==
    LET NotManaged(line) == ~ IsManagedLine(line)
        new_lines == SelectSeq(addon_xml.content_lines, NotManaged)
    IN  [addon_xml EXCEPT !.content_lines = new_lines]

get_xml_whitespace(addon_xml, descriptions, disclaimers, summaries, lifecyclestates) ==
    IF Len(descriptions) > 0 THEN descriptions[1][1]
    ELSE IF Len(disclaimers) > 0 THEN disclaimers[1][1]
    ELSE IF Len(summaries) > 0 THEN summaries[1][1]
    ELSE IF Len(lifecyclestates) > 0 THEN lifecyclestates[1][1]
    ELSE LET whitespace_candidates == FindAll(RE_METADATA_WHITESPACE, addon_xml.content)
         IN  IF Len(whitespace_candidates) > 0 THEN whitespace_candidates[1] ELSE <<>>

\* the for loop of get_xml_insert_index from 0-based index on, insert_line so far
RECURSIVE XmlInsertScan(_, _, _)
XmlInsertScan(lines, index, insert_line) ==
    IF index >= Len(lines) THEN insert_line
    ELSE LET line == lines[index + 1]
             marked == IF Contains(line, S_EXTENSION_OPEN) /\ Contains(line, S_ADDON_METADATA)
                       THEN index + 1 ELSE insert_line
         IN  IF marked > -1 /\ Contains(line, S_EXTENSION_CLOSE)
             THEN index
             ELSE XmlInsertScan(lines, index + 1, marked)

\* get_xml_insert_index: the 0-based line index, or the Exception raised
get_xml_insert_index(addon_xml) ==
    LET insert_line == XmlInsertScan(addon_xml.content_lines, 0, -1)
    IN  [raised |-> insert_line = -1, value |-> insert_line]

\* a < b for str
StrLess(a, b) ==
    \E k \in 1..(Len(a) + 1) :
        /\ \A j \in 1..(k - 1) : j <= Len(b) /\ a[j] = b[j]
        /\ k <= Len(b)
        /\ (k = Len(a) + 1 \/ Ord(a[k]) < Ord(b[k]))

\* one step of a stable insertion: item goes after the items not greater than it
RECURSIVE InsertByCode(_, _)
InsertByCode(sorted, item) ==
    IF sorted = <<>> THEN <<item>>
    ELSE IF StrLess(item[1], Head(sorted)[1])
         THEN <<item>> \o sorted
         ELSE <<Head(sorted)>> \o InsertByCode(Tail(sorted), item)

\* items.sort(key=lambda item: item[0]): stable, by language code
RECURSIVE SortByCode(_)
SortByCode(items) ==
    IF items = <<>> THEN <<>>
    ELSE InsertByCode(SortByCode(SubSeq(items, 1, Len(items) - 1)), items[Len(items)])

\* XMLTPL_DESCRIPTION, XMLTPL_DISCLAIMER, XMLTPL_SUMMARY .format(...)
XmlLine(open, close, whitespace, language_code, body) ==
    whitespace \o open \o <<"\"">> \o language_code \o <<"\"", ">">> \o body \o close \o <<"\n">>

\* XMLTPL_LIFECYCLESTATE.format(...); a type of None is printed as 'None'
XmlLifecyclestateLine(whitespace, type, language_code, body) ==
    whitespace \o S_LIFECYCLESTATE_SP \o S_TYPE_EQ \o <<"\"">>
        \o (IF type = None THEN <<"N", "o", "n", "e">> ELSE type)
        \o <<"\"", " ">> \o S_LANG_EQ \o <<"\"">> \o language_code \o <<"\"", ">">>
        \o body \o S_LIFECYCLESTATE_CLOSE \o <<"\n">>

\* for language_code, body in items if body
WithBody(items) ==
    LET HasBody(item) == item[2] # <<>>
    IN  SelectSeq(items, HasBody)

\* [XMLTPL_x.format(whitespace=..., language_code=..., body=...) for ... in kept]
RenderXmlLines(open, close, whitespace, kept) ==
    [i \in 1..Len(kept) |-> XmlLine(open, close, whitespace, kept[i][1], kept[i][2])]

\* [XMLTPL_LIFECYCLESTATE.format(...) for ... in kept]
RenderLifecyclestateLines(whitespace, type, kept) ==
    [i \in 1..Len(kept) |-> XmlLifecyclestateLine(whitespace, type, kept[i][1], kept[i][2])]

(***************************************************************************)
(* String literals of the po side.                                         *)
(***************************************************************************)
S_MSGCTXT_Q == <<"m", "s", "g", "c", "t", "x", "t", " ", "\"">>
S_MSGID == <<"m", "s", "g", "i", "d", " ">>
S_MSGSTR == <<"m", "s", "g", "s", "t", "r", " ">>
S_MSGSTR_EMPTY == <<"m", "s", "g", "s", "t", "r", " ", "\"", "\"">>
S_RESOURCE_LANGUAGE == <<"r", "e", "s", "o", "u", "r", "c", "e", ".", "l", "a", "n", "g", "u",
    "a", "g", "e", ".">>

\* 'msgctxt "{ctxt}"'.format(ctxt=ctxt)
MsgctxtTarget(ctxt) == S_MSGCTXT_Q \o ctxt \o <<"\"">>

\* POTPL_MSGCTXT, POTPL_MSGID, POTPL_MSGSTR .format(string=string)
POTPL_MSGCTXT(string) == S_MSGCTXT_Q \o string \o <<"\"", "\n">>
POTPL_MSGID(string) == S_MSGID \o <<"\"">> \o string \o <<"\"", "\n">>
POTPL_MSGSTR(string) == S_MSGSTR \o <<"\"">> \o string \o <<"\"", "\n">>

(***************************************************************************)
(* language_code_from_path, get_default_po                                 *)
(***************************************************************************)
\* the classes [a-z] and [A-Za-z]
LowerSet == {"a", "b", "c", "d", "e", "f", "g", "h", "i", "j", "k", "l", "m",
    "n", "o", "p", "q", "r", "s", "t", "u", "v", "w", "x", "y", "z"}
LetterSet == {"a", "b", "c", "d", "e", "f", "g", "h", "i", "j", "k", "l", "m",
    "n", "o", "p", "q", "r", "s", "t", "u", "v", "w", "x", "y", "z",
    "A", "B", "C", "D", "E", "F", "G", "H", "I", "J", "K", "L", "M",
    "N", "O", "P", "Q", "R", "S", "T", "U", "V", "W", "X", "Y", "Z"}

\* str.upper() of one character: the str it becomes. The small letters of
\* ASCII and of Latin-1 have their capital 32 code points below, but for the
\* division sign; the sharp s becomes 'SS', the micro sign and the y with
\* diaeresis get capitals above U+00FF
UpperOf(c, n) ==
    IF n \in 97..122 \/ n \in (224..254) \ {247} THEN <<Latin1[n - 31]>>
    ELSE IF n = 223 THEN <<"S", "S">>
    ELSE IF n = 181 THEN <<"U+039C">>
    ELSE IF n = 255 THEN <<"U+0178">>
    ELSE <<c>>

UpperChar(c) == UpperOf(c, Ord(c))

\* s.upper()
RECURSIVE Upper(_)
Upper(s) == IF s = <<>> THEN <<>> ELSE UpperChar(Head(s)) \o Upper(Tail(s))

\* resource\.language\.(?P<language_code>[a-z]{2,3}(?:_[A-Za-z]{2})?(?:@\S+)?)
\* searched in the path, then the region put in upper case
language_code_from_path(language_path) ==
    LET p == language_path
        lit == Len(S_RESOURCE_LANGUAGE)
        starts == { i \in 1..Len(p) :
                      /\ IsPrefixAt(p, i, S_RESOURCE_LANGUAGE)
                      /\ i + lit + 1 <= Len(p)
                      /\ p[i + lit] \in LowerSet
                      /\ p[i + lit + 1] \in LowerSet }
    IN  IF starts = {} THEN <<>>
        ELSE LET a == (CHOOSE i \in starts : \A j \in starts : i <= j) + lit
                 b == IF a + 2 <= Len(p) /\ p[a + 2] \in LowerSet THEN a + 3 ELSE a + 2
                 c == IF /\ b + 2 <= Len(p) /\ p[b] = "_"
                         /\ p[b + 1] \in LetterSet /\ p[b + 2] \in LetterSet
                      THEN b + 3 ELSE b
                 d == IF c + 1 <= Len(p) /\ p[c] = "@" /\ p[c + 1] \notin Whitespace
                      THEN FirstIn(p, c + 1, Whitespace) ELSE c
                 language_code == SubSeq(p, a, d - 1)
                 u == FirstIn(language_code, 1, {"_"})
                 v == FirstIn(language_code, u + 1, {"_"})
                 region == SubSeq(language_code, u + 1, v - 1)
             IN  IF u <= Len(language_code)
                 THEN SubSeq(language_code, 1, u - 1) \o <<"_">>
                      \o Upper(SubSeq(region, 1, IF Len(region) < 2 THEN Len(region) ELSE 2))
                      \o SubSeq(region, 3, Len(region))
                 ELSE language_code

\* the first po file whose language code is 'en_gb' or 'en_GB', or {}
get_default_po(po_index) ==
    LET hits == { i \in 1..Len(po_index) :
                    po_index[i].language_code \in { <<"e", "n", "_", "g", "b">>, LANG_EN_GB } }
    IN  IF hits = {} THEN <<>>
        ELSE po_index[CHOOSE i \in hits : \A j \in hits : i <= j]

(***************************************************************************)
(* get_po_metadata(po_index, ctxt)                                         *)
(***************************************************************************)
\* the inner for loop from line i on; st holds msgctxt, msgstr and string;
\* the result is string when the loop ends or breaks
RECURSIVE PoMetadataScan(_, _, _, _, _)
PoMetadataScan(lines, i, language_code, target, st) ==
    IF i > Len(lines) THEN st.string
    ELSE LET line == lines[i]
         IN  IF ~ st.msgctxt /\ StartsWith(line, target)
             THEN PoMetadataScan(lines, i + 1, language_code, target,
                                 [st EXCEPT !.msgctxt = TRUE])
             ELSE IF ~ st.msgctxt
             THEN PoMetadataScan(lines, i + 1, language_code, target, st)
             ELSE IF language_code = LANG_EN_GB
             THEN IF ~ st.msgstr /\ StartsWith(line, S_MSGID)
                  THEN PoMetadataScan(lines, i + 1, language_code, target,
                           [st EXCEPT !.msgstr = TRUE,
                                      !.string = @ \o Replace(line, S_MSGID, <<>>)])
                  ELSE IF StartsWith(line, S_MSGSTR)
                  THEN st.string
                  ELSE PoMetadataScan(lines, i + 1, language_code, target,
                           [st EXCEPT !.string = @ \o line])
             ELSE IF ~ st.msgstr /\ ~ StartsWith(line, S_MSGSTR)
                  THEN PoMetadataScan(lines, i + 1, language_code, target, st)
                  ELSE IF ~ st.msgstr
                  THEN PoMetadataScan(lines, i + 1, language_code, target,
                           [st EXCEPT !.msgstr = TRUE,
                                      !.string = @ \o Replace(line, S_MSGSTR, <<>>)])
                  ELSE IF ~ StartsWith(line, <<"\"">>)
                  THEN st.string
                  ELSE PoMetadataScan(lines, i + 1, language_code, target,
                           [st EXCEPT !.string = @ \o line])

\* the five replace calls made on a captured string
CleanPoString(string) ==
    LET repdq == <<"%", "r", "e", "p", "d", "q", "%">>
    IN  Replace(Replace(Replace(Replace(Replace(string,
            <<"\"", "\n", "\"">>, <<>>), <<"\n">>, <<>>), S_BSQ, repdq), <<"\"">>, <<>>),
            repdq, S_BSQ)

\* what one po file adds to payload: one item, or nothing
PoFileMetadata(po_file, ctxt) ==
    LET string == PoMetadataScan(po_file.content_lines, 1, po_file.language_code,
                                 MsgctxtTarget(ctxt),
                                 [msgctxt |-> FALSE, msgstr |-> FALSE, string |-> <<>>])
    IN  IF string # <<>>
        THEN << <<po_file.language_code, CleanPoString(string)>> >>
        ELSE <<>>

RECURSIVE PoMetadataFrom(_, _, _)
PoMetadataFrom(po_index, i, ctxt) ==
    IF i > Len(po_index) THEN <<>>
    ELSE PoFileMetadata(po_index[i], ctxt) \o PoMetadataFrom(po_index, i + 1, ctxt)

\* [(<language_code>, <translated string>), ...]
get_po_metadata(po_index, ctxt) == PoMetadataFrom(po_index, 1, ctxt)

(***************************************************************************)
(* get_po_lines, merge_po_lines                                            *)
(***************************************************************************)
\* next((item for item in items if item[0] == code), default)
FirstWithCode(items, code, default) ==
    LET hits == { i \in 1..Len(items) : items[i][1] = code }
    IN  IF hits = {} THEN default
        ELSE items[CHOOSE i \in hits : \A j \in hits : i <= j]

\* get_po_lines that gives every block the text of its own item as msgid (a
\* variant of the code)
GetPoLinesOwnMsgid(items, ctxt) ==
    IF FirstWithCode(items, LANG_EN_GB, None) # None
    THEN [i \in 1..Len(items) |->
            <<items[i][1],
              <<POTPL_MSGCTXT(ctxt),
                POTPL_MSGID(items[i][2]),
                POTPL_MSGSTR(IF items[i][1] = LANG_EN_GB THEN <<>> ELSE items[i][2]),
                <<"\n">>>> >>]
    ELSE <<>>

\* [(<language_code>, [msgctxt, msgid, msgstr, '\n']), ...], [] without en_GB
get_po_lines(items, ctxt) ==
    LET en_gb == FirstWithCode(items, LANG_EN_GB, None)
    IN  IF en_gb # None
        THEN [i \in 1..Len(items) |->
                <<items[i][1],
                  <<POTPL_MSGCTXT(ctxt),
                    POTPL_MSGID(en_gb[2]),
                    POTPL_MSGSTR(IF items[i][1] = LANG_EN_GB THEN <<>> ELSE items[i][2]),
                    <<"\n">>>> >>]
        ELSE <<>>

\* the dict language -> lines, as a function over the languages found
merge_po_lines(summary_lines, description_lines, disclaimer_lines, lifecyclestate_lines) ==
    LET Lines(field_lines, language) ==
            FirstWithCode(field_lines, language,
                          FirstWithCode(field_lines, LANG_EN_GB, <<LANG_EN_GB, <<>>>>))[2]
        languages == Codes(summary_lines) \cup Codes(description_lines)
                     \cup Codes(disclaimer_lines) \cup Codes(lifecyclestate_lines)
    IN  [language \in languages |->
            Lines(summary_lines, language) \o Lines(description_lines, language)
            \o Lines(disclaimer_lines, language) \o Lines(lifecyclestate_lines, language)]

(***************************************************************************)
(* remove_po_lines, get_po_insert_index, format_po_lines, insert_po_lines  *)
(***************************************************************************)
\* line.startswith(ctxt_targets)
StartsWithCtxtTarget(line) ==
    \/ StartsWith(line, MsgctxtTarget(CTXT_SUMMARY))
    \/ StartsWith(line, MsgctxtTarget(CTXT_DESCRIPTION))
    \/ StartsWith(line, MsgctxtTarget(CTXT_DISCLAIMER))
    \/ StartsWith(line, MsgctxtTarget(CTXT_LIFECYCLESTATE))

\* the inner for loop of remove_po_lines from line i on; st holds msgctxt, msgid
\* and msgstr; the result is the lines kept
RECURSIVE RemoveScan(_, _, _)
RemoveScan(lines, i, st) ==
    IF i > Len(lines) THEN <<>>
    ELSE LET line == lines[i]
             reset == [msgctxt |-> FALSE, msgid |-> FALSE, msgstr |-> FALSE]
         IN  IF ~ st.msgctxt /\ StartsWithCtxtTarget(line)
             THEN RemoveScan(lines, i + 1, [st EXCEPT !.msgctxt = TRUE])
             ELSE IF st.msgctxt /\ ~ st.msgid
             THEN RemoveScan(lines, i + 1,
                             [st EXCEPT !.msgid = StartsWith(line, S_MSGID)])
             ELSE IF st.msgid /\ ~ st.msgstr
             THEN RemoveScan(lines, i + 1,
                             [st EXCEPT !.msgstr = StartsWith(line, S_MSGSTR)])
             ELSE IF st.msgctxt /\ st.msgid /\ st.msgstr
             THEN IF IsBlank(line)
                  THEN RemoveScan(lines, i + 1, reset)
                  ELSE IF StartsWith(line, <<"\"">>)
                  THEN RemoveScan(lines, i + 1, st)
                  ELSE <<line>> \o RemoveScan(lines, i + 1, reset)
             ELSE <<line>> \o RemoveScan(lines, i + 1, st)

\* the inner for loop of remove_po_lines with the line that ends an entry
\* dropped with the entry (a variant of the code)
RECURSIVE RemoveScanEager(_, _, _)
RemoveScanEager(lines, i, st) ==
    IF i > Len(lines) THEN <<>>
    ELSE LET line == lines[i]
             reset == [msgctxt |-> FALSE, msgid |-> FALSE, msgstr |-> FALSE]
         IN  IF ~ st.msgctxt /\ StartsWithCtxtTarget(line)
             THEN RemoveScanEager(lines, i + 1, [st EXCEPT !.msgctxt = TRUE])
             ELSE IF st.msgctxt /\ ~ st.msgid
             THEN RemoveScanEager(lines, i + 1,
                                  [st EXCEPT !.msgid = StartsWith(line, S_MSGID)])
             ELSE IF st.msgid /\ ~ st.msgstr
             THEN RemoveScanEager(lines, i + 1,
                                  [st EXCEPT !.msgstr = StartsWith(line, S_MSGSTR)])
             ELSE IF st.msgctxt /\ st.msgid /\ st.msgstr
             THEN IF StartsWith(line, <<"\"">>)
                  THEN RemoveScanEager(lines, i + 1, st)
                  ELSE RemoveScanEager(lines, i + 1, reset)
             ELSE <<line>> \o RemoveScanEager(lines, i + 1, st)

RemovePoLinesOfFileEager(content_lines) ==
    RemoveScanEager(content_lines, 1, [msgctxt |-> FALSE, msgid |-> FALSE, msgstr |-> FALSE])

\* the content_lines remove_po_lines leaves for one po file
RemovePoLinesOfFile(content_lines) ==
    RemoveScan(content_lines, 1, [msgctxt |-> FALSE, msgid |-> FALSE, msgstr |-> FALSE])

\* a deep copy of po_index with the managed entries taken out of content_lines
remove_po_lines(po_index) ==
    [index \in 1..Len(po_index) |->
        [po_index[index] EXCEPT
            !.content_lines = RemovePoLinesOfFile(po_index[index].content_lines)]]

\* the for loop of get_po_insert_index from 0-based index on
RECURSIVE PoInsertScan(_, _, _, _)
PoInsertScan(po_file, index, msgstr, first_quote) ==
    IF index >= Len(po_file) THEN -1
    ELSE LET line == po_file[index + 1]
         IN  IF ~ msgstr /\ StartsWith(line, S_MSGSTR_EMPTY)
             THEN PoInsertScan(po_file, index + 1, TRUE, first_quote)
             ELSE IF msgstr /\ ~ first_quote /\ StartsWith(line, <<"\"">>)
             THEN PoInsertScan(po_file, index + 1, msgstr, TRUE)
             ELSE IF msgstr /\ first_quote /\ ~ StartsWith(line, <<"\"">>)
             THEN index + 1
             ELSE PoInsertScan(po_file, index + 1, msgstr, first_quote)

\* get_po_insert_index that returns the index of the line that ends the run of
\* continuation lines instead of the index after it (a variant of the code)
GetPoInsertIndexAtLine(po_file) ==
    IF PoInsertScan(po_file, 0, FALSE, FALSE) = -1 THEN -1
    ELSE PoInsertScan(po_file, 0, FALSE, FALSE) - 1

\* the 0-based index where metadata goes, -1 when no anchor is found
get_po_insert_index(po_file) == PoInsertScan(po_file, 0, FALSE, FALSE)

\* the sorting weight format_po_lines gives a group, 4 for a group it drops
CtxtWeight(line) ==
    IF StartsWith(line, MsgctxtTarget(CTXT_SUMMARY)) THEN 0
    ELSE IF StartsWith(line, MsgctxtTarget(CTXT_DESCRIPTION)) THEN 1
    ELSE IF StartsWith(line, MsgctxtTarget(CTXT_DISCLAIMER)) THEN 2
    ELSE IF StartsWith(line, MsgctxtTarget(CTXT_LIFECYCLESTATE)) THEN 3
    ELSE 4

\* format_po_lines with the groups left in the order they arrive (a variant of
\* the code)
FormatPoLinesUnsorted(po_lines) ==
    LET NotBlank(line) == ~ IsBlank(line)
        kept == SelectSeq(po_lines, NotBlank)
        groups == [g \in 1..(Len(kept) \div 3) |->
                      <<kept[3 * g - 2], kept[3 * g - 1], kept[3 * g]>>]
        Known(group) == CtxtWeight(group[1]) < 4
        known == SelectSeq(groups, Known)
    IN  Join([g \in 1..Len(known) |-> Append(known[g], <<"\n">>)])

\* the lines returned: blank lines dropped, the rest grouped in threes, the
\* groups of a known context ordered by weight (stable), '\n' after each
format_po_lines(po_lines) ==
    LET NotBlank(line) == ~ IsBlank(line)
        kept == SelectSeq(po_lines, NotBlank)
        groups == [g \in 1..(Len(kept) \div 3) |->
                      <<kept[3 * g - 2], kept[3 * g - 1], kept[3 * g]>>]
        OfWeight(w) ==
            LET Is(group) == CtxtWeight(group[1]) = w
            IN  SelectSeq(groups, Is)
        sorted == OfWeight(0) \o OfWeight(1) \o OfWeight(2) \o OfWeight(3)
    IN  Join([g \in 1..Len(sorted) |-> Append(sorted[g], <<"\n">>)])

\* lines[:index] and lines[index:] for a list, index negative or not
SliceTo(lines, index) ==
    IF index >= 0 THEN SubSeq(lines, 1, IF index < Len(lines) THEN index ELSE Len(lines))
    ELSE SubSeq(lines, 1, IF Len(lines) + index > 0 THEN Len(lines) + index ELSE 0)

SliceFrom(lines, index) ==
    IF index >= 0 THEN SubSeq(lines, index + 1, Len(lines))
    ELSE SubSeq(lines, (IF Len(lines) + index > 0 THEN Len(lines) + index ELSE 0) + 1,
                Len(lines))

\* the reversed loop that deletes blank lines from the end of the list
RECURSIVE StripTrailingBlank(_)
StripTrailingBlank(lines) ==
    IF lines # <<>> /\ IsBlank(lines[Len(lines)])
    THEN StripTrailingBlank(SubSeq(lines, 1, Len(lines) - 1))
    ELSE lines

\* the content_lines insert_po_lines returns for one po file.  The '\n' the
\* code appends afterwards goes to the list of its argument, not to the copy
\* it returns.
InsertPoLinesOfFile(po_item, po_lines) ==
    LET insert_index == get_po_insert_index(po_item.content_lines)
        insert_lines ==
            IF po_item.language_code \in DOMAIN po_lines
            THEN po_lines[po_item.language_code]
            ELSE IF LANG_EN_GB \in DOMAIN po_lines THEN po_lines[LANG_EN_GB]
            ELSE <<>>
    IN  IF insert_lines # <<>>
        THEN StripTrailingBlank(SliceTo(po_item.content_lines, insert_index)
                                \o format_po_lines(insert_lines)
                                \o SliceFrom(po_item.content_lines, insert_index))
        ELSE po_item.content_lines

\* a deep copy of po_index with the rendered blocks put into content_lines
insert_po_lines(po_index, po_lines) ==
    [index \in 1..Len(po_index) |->
        [po_index[index] EXCEPT
            !.content_lines = InsertPoLinesOfFile(po_index[index], po_lines)]]

\* lines 716-720: the lines insert_po_lines picks for a po file, [] when the
\* dict has neither the language of the file nor en_GB
InsertLinesOf(po_item, po_lines) ==
    IF po_item.language_code \in DOMAIN po_lines THEN po_lines[po_item.language_code]
    ELSE IF LANG_EN_GB \in DOMAIN po_lines THEN po_lines[LANG_EN_GB]
    ELSE <<>>

\* line 737: po_index as insert_po_lines leaves the list it was given; the
\* files it inserted into have a '\n' line appended to their content_lines
InsertPoLinesArgument(po_index, po_lines) ==
    [index \in 1..Len(po_index) |->
        IF InsertLinesOf(po_index[index], po_lines) # <<>>
        THEN [po_index[index] EXCEPT
                 !.content_lines = Append(po_index[index].content_lines, <<"\n">>)]
        ELSE po_index[index]]

\* the indexes of the po files write_po_files writes: those whose lines in
\* output_index differ from the lines in po_index
ChangedPoFiles(po_index, output_index) ==
    { index \in 1..Len(output_index) :
        output_index[index].content_lines # po_index[index].content_lines }

(***************************************************************************)
(* Files.                                                                  *)
(***************************************************************************)
\* file_handle.read() of a file holding content, opened in text mode with the
\* default newline=None: '\r\n' and a lone '\r' arrive as '\n'
Read(content) ==
    LET Kept(i) == ~ (content[i] = "\n" /\ i > 1 /\ content[i - 1] = "\r")
        kept == SelectSeq([i \in 1..Len(content) |-> i], Kept)
    IN  [k \in 1..Len(kept) |-> IF content[kept[k]] = "\r" THEN "\n" ELSE content[kept[k]]]

\* the text cut after each '\n'
RECURSIVE SplitLines(_)
SplitLines(text) ==
    IF text = <<>> THEN <<>>
    ELSE LET nl == FirstIn(text, 1, {"\n"})
         IN  IF nl >= Len(text) THEN <<text>>
             ELSE <<SubSeq(text, 1, nl)>> \o SplitLines(SubSeq(text, nl + 1, Len(text)))

\* file_handle.readlines() of a file holding content: the lines with their '\n'
ReadLines(content) == SplitLines(Read(content))

\* what a file holds once file_handle.writelines(lines) has written it
WriteLines(lines) == Join(lines)

S_DOT_PO == <<".", "p", "o">>
S_ADDON_XML == <<"a", "d", "d", "o", "n", ".", "x", "m", "l">>
S_ADDON_XML_IN == <<"a", "d", "d", "o", "n", ".", "x", "m", "l", ".", "i", "n">>

\* s.endswith(p)
EndsWith(s, p) == Len(s) >= Len(p) /\ IsPrefixAt(s, Len(s) - Len(p) + 1, p)

\* os.path.join(path, filename): a filename that starts at the root stands alone,
\* and no '/' is added after an empty path or a path that ends with one
PathJoin(path, filename) ==
    IF StartsWith(filename, <<"/">>) THEN filename
    ELSE IF path = <<>> \/ EndsWith(path, <<"/">>) THEN path \o filename
    ELSE path \o <<"/">> \o filename

(***************************************************************************)
(* The file system. It is the directories and the files under the current  *)
(* directory, each in the order the operating system lists them:           *)
(*   dirs   the paths of the directories,                                  *)
(*   files  for each file the path of its directory, its name and the text *)
(*          it holds.                                                      *)
(* These paths start at the current directory and hold no '..'. The root   *)
(* holds the current directory and nothing else, and there are no links.   *)
(* A path the code hands to the operating system is resolved name by name  *)
(* from the root or from the current directory, as the system does it.     *)
(***************************************************************************)
\* the names that lead from the root to the current directory of the process
Cwd == <<<<"w">>>>

\* the names a path of the file system itself holds: its parts between '/',
\* without '' and '.'
RECURSIVE Names(_)
Names(path) ==
    IF path = <<>> THEN <<>>
    ELSE LET stop == FirstIn(path, 1, {"/"})
             name == SubSeq(path, 1, stop - 1)
             rest == Names(SubSeq(path, stop + 1, Len(path)))
         IN  IF name = <<>> \/ name = <<".">> THEN rest ELSE <<name>> \o rest

\* the names a lead to a directory that is b or holds b
LeadsTo(a, b) == Len(a) <= Len(b) /\ SubSeq(b, 1, Len(a)) = a

\* the directories of the file system, each as the names that lead to it from
\* the root
Places(files) ==
    <<Cwd>>
    \o [i \in 1..Len(files.dirs) |-> Cwd \o Names(files.dirs[i])]
    \o [j \in 1..Len(files.files) |-> Cwd \o Names(files.files[j].path)]

\* the path resolved from the directory the names in at lead to: each part
\* between '/' is looked up in a directory, '' and '.' stay in it, '..' goes up
\* (the root is its own parent), and a '/' at the end stands for '/.'. The
\* value is <<names>>, or <<>> when a part is to be looked up in what is no
\* directory
RECURSIVE Resolve(_, _, _)
Resolve(places, at, path) ==
    IF path = <<>> THEN <<at>>
    ELSE IF \A i \in 1..Len(places) : ~ LeadsTo(at, places[i]) THEN <<>>
    ELSE LET stop == FirstIn(path, 1, {"/"})
             name == SubSeq(path, 1, stop - 1)
             rest == IF stop = Len(path) THEN <<".">> ELSE SubSeq(path, stop + 1, Len(path))
         IN  Resolve(places,
                     IF name = <<>> \/ name = <<".">> THEN at
                     ELSE IF name = <<".", ".">> THEN SubSeq(at, 1, Len(at) - 1)
                     ELSE Append(at, name),
                     rest)

\* the names a path leads through from the root, as <<names>>, or <<>>: a path
\* that starts with '/' starts at the root, any other at the current directory
Components(places, path) ==
    Resolve(places, IF StartsWith(path, <<"/">>) THEN <<>> ELSE Cwd, path)

\* os.path.isdir(path)
IsDir(files, path) ==
    /\ path # <<>>
    /\ LET places == Places(files)
           top == Components(places, path)
       IN  top # <<>> /\ \E i \in 1..Len(places) : LeadsTo(top[1], places[i])

\* the items of a list without the repetitions of an earlier item
RECURSIVE Unique(_)
Unique(items) ==
    IF items = <<>> THEN <<>>
    ELSE LET front == Unique(SubSeq(items, 1, Len(items) - 1))
             last == items[Len(items)]
         IN  IF \E i \in 1..Len(front) : front[i] = last THEN front ELSE Append(front, last)

\* [item for item in os.listdir(path) if os.path.isdir(os.path.join(path, item))]
\* for a path that is a directory: the names of the directories that it holds,
\* in the order of the listing
ListDirectories(files, path) ==
    LET places == Places(files)
        top == Components(places, path)[1]
        Below(place) == Len(place) > Len(top) /\ LeadsTo(top, place)
        below == SelectSeq(places, Below)
    IN  Unique([i \in 1..Len(below) |-> below[i][Len(top) + 1]])

\* the positions in files.files of the files filename names
FilesNamed(files, filename) ==
    LET target == Components(Places(files), filename)
    IN  { j \in 1..Len(files.files) :
            /\ target # <<>>
            /\ Cwd \o Names(files.files[j].path) \o <<files.files[j].filename>> = target[1] }

\* os.path.isfile(filename)
IsFile(files, filename) == filename # <<>> /\ FilesNamed(files, filename) # {}

\* the root os.walk(top) reports for the directory the names in rest lead to
\* from top: each level is os.path.join of the level above and the name
RECURSIVE WalkRoot(_, _)
WalkRoot(top, rest) ==
    IF rest = <<>> THEN top ELSE WalkRoot(PathJoin(top, Head(rest)), Tail(rest))

\* os.walk(top): the files of the directories it visits, each with the root it
\* is reported under, which is top as given joined with the names that lead on
\* from it; nothing when top is no directory
OsWalk(files, top) ==
    IF IsDir(files, top)
    THEN LET from == Components(Places(files), top)[1]
             Place(file) == Cwd \o Names(file.path)
             Under(file) == LeadsTo(from, Place(file))
             under == SelectSeq(files.files, Under)
         IN  [i \in 1..Len(under) |->
                 [root |-> WalkRoot(top, SubSeq(Place(under[i]), Len(from) + 1,
                                                Len(Place(under[i])))),
                  basename |-> under[i].filename,
                  content |-> under[i].content]]
    ELSE <<>>

\* walk(directory, pattern) for a pattern without wildcards: the files of that
\* name, each as os.path.join(root, basename)
walk(files, directory, pattern) ==
    LET Matches(file) == file.basename = pattern
        found == SelectSeq(OsWalk(files, directory), Matches)
    IN  [i \in 1..Len(found) |-> PathJoin(found[i].root, found[i].basename)]

\* find_addon_xml_in(working_directory): the first addon.xml.in walk yields, or ''
find_addon_xml_in(files, working_directory) ==
    LET found == walk(files, working_directory, S_ADDON_XML_IN)
    IN  IF found # <<>> THEN found[1] ELSE <<>>

\* lines 306-316: the dict of the file, with the text it holds as read() and
\* readlines() give it; {} when filename_and_path names no file
AddonXmlOf(files, filename_and_path) ==
    IF IsFile(files, filename_and_path)
    THEN LET content ==
                 files.files[CHOOSE j \in FilesNamed(files, filename_and_path) : TRUE].content
         IN  [filename |-> filename_and_path,
              content_lines |-> ReadLines(content),
              content |-> Read(content)]
    ELSE <<>>

\* get_addon_xml(working_directory): the dict of the addon.xml of the directory
\* or else of the addon.xml.in found in it, {} when there is neither
get_addon_xml(files, working_directory) ==
    LET addon_xml == PathJoin(working_directory, S_ADDON_XML)
    IN  AddonXmlOf(files, IF IsFile(files, addon_xml) THEN addon_xml
                          ELSE find_addon_xml_in(files, working_directory))

\* generate_po_index(working_directory): the .po files of the directories whose
\* path holds 'resource.language.'
generate_po_index(files, working_directory) ==
    LET Indexed(file) == /\ Contains(file.root, S_RESOURCE_LANGUAGE)
                         /\ EndsWith(file.basename, S_DOT_PO)
        found == SelectSeq(OsWalk(files, working_directory), Indexed)
    IN  [i \in 1..Len(found) |->
            [filename |-> PathJoin(found[i].root, found[i].basename),
             language_code |-> language_code_from_path(found[i].root),
             content_lines |-> ReadLines(found[i].content)]]

\* the file system after open(filename, 'w') and file_handle.writelines(lines)
\* on a file that exists
WriteFile(files, filename, lines) ==
    [files EXCEPT !.files =
        [j \in 1..Len(@) |->
            IF j \in FilesNamed(files, filename)
            THEN [@[j] EXCEPT !.content = WriteLines(lines)]
            ELSE @[j]]]

\* the file system after write_po_files has written, in the order of the index,
\* the files with the indexes in written
RECURSIVE WritePoFiles(_, _, _, _)
WritePoFiles(files, output_index, written, index) ==
    IF index > Len(output_index) THEN files
    ELSE WritePoFiles(IF index \in written
                      THEN WriteFile(files, output_index[index].filename,
                                     output_index[index].content_lines)
                      ELSE files,
                      output_index, written, index + 1)

(***************************************************************************)
(* po_to_xml(addon_xml, po_index), in the order of its statements; each    *)
(* stage hands the values it computed to the next one.                     *)
(***************************************************************************)
\* lines 927-939 with the splice overwriting the line at the insert index (a
\* variant of the code)
PoToXmlWriteOver(addon_xml, insert_index, metadata_lines) ==
    LET payload == SliceTo(addon_xml.content_lines, insert_index.value)
                   \o metadata_lines
                   \o SliceFrom(addon_xml.content_lines, insert_index.value + 1)
    IN  IF insert_index.raised
        THEN [raised |-> TRUE, addon_xml |-> addon_xml, payload |-> <<>>, writes |-> FALSE]
        ELSE [raised |-> FALSE, addon_xml |-> addon_xml, payload |-> payload,
              writes |-> payload # addon_xml.content_lines]

\* lines 927-939: the new lines, the test 'payload != addon_xml['content_lines']'
\* (by now the dict holds the lines xml_remove_elements left) and the outcome:
\* the lines built, whether the file is written, the dict as the call leaves it
PoToXmlWrite(addon_xml, insert_index, metadata_lines) ==
    LET payload == SliceTo(addon_xml.content_lines, insert_index.value)
                   \o metadata_lines
                   \o SliceFrom(addon_xml.content_lines, insert_index.value)
    IN  IF insert_index.raised
        THEN [raised |-> TRUE, addon_xml |-> addon_xml, payload |-> <<>>, writes |-> FALSE]
        ELSE [raised |-> FALSE, addon_xml |-> addon_xml, payload |-> payload,
              writes |-> payload # addon_xml.content_lines]

\* lines 908-930 with the lines spliced in the order they are computed:
\* description, disclaimer, summary, lifecyclestate (a variant of the code)
PoToXmlLinesAsComputed(addon_xml, lifecyclestate_type, xml_whitespace, descriptions, disclaimers, summaries, lifecyclestates) ==
    PoToXmlWrite(addon_xml, get_xml_insert_index(addon_xml),
                 RenderXmlLines(S_DESCRIPTION_OPEN, S_DESCRIPTION_CLOSE, xml_whitespace,
                                WithBody(descriptions))
                 \o RenderXmlLines(S_DISCLAIMER_OPEN, S_DISCLAIMER_CLOSE, xml_whitespace,
                                   WithBody(disclaimers))
                 \o RenderXmlLines(S_SUMMARY_OPEN, S_SUMMARY_CLOSE, xml_whitespace,
                                   WithBody(summaries))
                 \o RenderLifecyclestateLines(xml_whitespace, lifecyclestate_type,
                                              WithBody(lifecyclestates)))

\* lines 908-926: the lines of every kind are rendered, then the insert index
\* is looked up
PoToXmlLines(addon_xml, lifecyclestate_type, xml_whitespace, descriptions, disclaimers, summaries, lifecyclestates) ==
    PoToXmlWrite(addon_xml, get_xml_insert_index(addon_xml),
                 RenderXmlLines(S_SUMMARY_OPEN, S_SUMMARY_CLOSE, xml_whitespace,
                                WithBody(summaries))
                 \o RenderXmlLines(S_DESCRIPTION_OPEN, S_DESCRIPTION_CLOSE, xml_whitespace,
                                   WithBody(descriptions))
                 \o RenderXmlLines(S_DISCLAIMER_OPEN, S_DISCLAIMER_CLOSE, xml_whitespace,
                                   WithBody(disclaimers))
                 \o RenderLifecyclestateLines(xml_whitespace, lifecyclestate_type,
                                              WithBody(lifecyclestates)))

\* lines 883-906 for one kind: the po items first, then the xml items of the
\* languages the po files do not have, escaped for xml and sorted by language
MergedForXml(po_index, ctxt, found) ==
    SortByCode(escape_characters(
        merge_items(get_po_metadata(po_index, ctxt), DropWhitespace(found)), "xml"))

\* lines 880-906; addon_xml is the dict xml_remove_elements returned
PoToXmlMerge(addon_xml, po_index, lifecyclestate_type, xml_lifecyclestates, xml_descriptions, xml_disclaimers, xml_summaries) ==
    PoToXmlLines(addon_xml, lifecyclestate_type,
                 get_xml_whitespace(addon_xml, xml_descriptions, xml_disclaimers,
                                    xml_summaries, xml_lifecyclestates),
                 MergedForXml(po_index, CTXT_DESCRIPTION, xml_descriptions),
                 MergedForXml(po_index, CTXT_DISCLAIMER, xml_disclaimers),
                 MergedForXml(po_index, CTXT_SUMMARY, xml_summaries),
                 MergedForXml(po_index, CTXT_LIFECYCLESTATE, xml_lifecyclestates))

\* lines 870-878: the elements are extracted, then removed from the lines
PoToXmlExtract(addon_xml, po_index, lifecyclestate_type) ==
    PoToXmlMerge(xml_remove_elements(addon_xml), po_index, lifecyclestate_type,
                 IF lifecyclestate_type # None
                 THEN get_xml_lifecyclestates(addon_xml) ELSE <<>>,
                 get_xml_descriptions(addon_xml),
                 get_xml_disclaimers(addon_xml),
                 get_xml_summaries(addon_xml))

po_to_xml(addon_xml, po_index) ==
    PoToXmlExtract(addon_xml, po_index, get_lifecyclestate_type(addon_xml))

(***************************************************************************)
(* xml_to_po(addon_xml, po_index, priority)                                *)
(***************************************************************************)
\* write_po_files that writes every file of the index (a variant of the code)
WriteEveryPoFile(po_index, output_index) == { index \in 1..Len(output_index) : TRUE }

\* write_po_files(po_index, output_index): the indexes of the files it writes
write_po_files(po_index, output_index) == ChangedPoFiles(po_index, output_index)

\* line 856: the index built and the po files written
XmlToPoWrite(po_index, payload_index) ==
    [payload_index |-> payload_index,
     written |-> write_po_files(po_index, payload_index)]

\* the merge of lines 828-837 with the po items first whatever the priority
\* (a variant of the code)
MergedPoLinesPoFirst(priority, ctxt, found, po_items) ==
    get_po_lines(escape_characters(merge_items(po_items, DropWhitespace(found)), "po"),
                 ctxt)

\* lines 818-847 for one kind: the items merged by priority, escaped for po,
\* and made into po lines
MergedPoLines(priority, ctxt, found, po_items) ==
    get_po_lines(
        escape_characters(IF priority = "xml"
                          THEN merge_items(DropWhitespace(found), po_items)
                          ELSE merge_items(po_items, DropWhitespace(found)), "po"),
        ctxt)

\* lines 810-854
XmlToPoMerge(addon_xml, po_index, priority, lifecyclestate_type) ==
    XmlToPoWrite(po_index,
        insert_po_lines(remove_po_lines(po_index),
            merge_po_lines(
                MergedPoLines(priority, CTXT_SUMMARY, get_xml_summaries(addon_xml),
                              get_po_metadata(po_index, CTXT_SUMMARY)),
                MergedPoLines(priority, CTXT_DESCRIPTION, get_xml_descriptions(addon_xml),
                              get_po_metadata(po_index, CTXT_DESCRIPTION)),
                MergedPoLines(priority, CTXT_DISCLAIMER, get_xml_disclaimers(addon_xml),
                              get_po_metadata(po_index, CTXT_DISCLAIMER)),
                MergedPoLines(priority, CTXT_LIFECYCLESTATE,
                              IF lifecyclestate_type # None
                              THEN get_xml_lifecyclestates(addon_xml) ELSE <<>>,
                              get_po_metadata(po_index, CTXT_LIFECYCLESTATE)))))

xml_to_po(addon_xml, po_index, priority) ==
    XmlToPoMerge(addon_xml, po_index,
                 IF priority \notin {"xml", "po"} THEN "xml" ELSE priority,
                 get_lifecyclestate_type(addon_xml))

(***************************************************************************)
(* Inputs of the stand-alone applications.                                 *)
(***************************************************************************)
\* the pieces texts are built from: the characters the escaper looks for, a
\* plain letter, a backslash, and the quote entity
EscapeTokens == { <<"\"">>, <<"'">>, <<"<">>, <<">">>, <<"&">>, <<"\\">>, <<"a">>, S_QUOT }

RECURSIVE TextsOfLen(_)
TextsOfLen(n) ==
    IF n = 0 THEN { <<>> }
    ELSE { t \o tok : t \in TextsOfLen(n - 1), tok \in EscapeTokens }

EscapeTexts == UNION { TextsOfLen(n) : n \in 0..MaxTokens }

MergeLanguages == { LANG_EN_GB, LANG_DE_DE }
MergeTexts == { <<"x">>, <<"y">> }
MergeItems == { <<l, t>> : l \in MergeLanguages, t \in MergeTexts }

RECURSIVE ListsOfLen(_, _)
ListsOfLen(S, n) ==
    IF n = 0 THEN { <<>> }
    ELSE { Append(l, e) : l \in ListsOfLen(S, n - 1), e \in S }

MergeLists == UNION { ListsOfLen(MergeItems, n) : n \in 0..MaxItems }

\* the value a variable holds in a specification that does not use it
Idle == "idle"

\* the exit status of a process that has not ended
NoExit == -1

MainIdle ==
    /\ args = Idle /\ disk = Idle /\ directories = Idle /\ dir_i = 0 /\ pc = Idle
    /\ _addon_xml = Idle /\ _po_index = Idle /\ exit_code = NoExit /\ stdout = Idle
    /\ run = 0 /\ disk_first = Idle /\ ptx_log = Idle /\ xtp_log = Idle

EscIdle == esc_input = Idle /\ esc_value = Idle /\ esc_trace = <<>>

MrgIdle == mrg_one = Idle /\ mrg_two = Idle /\ mrg_payload = Idle /\ mrg_done = FALSE

PolIdle == pol_lines = Idle /\ pol_call = Idle /\ pol_result = Idle

InsIdle ==
    /\ ins_po_index = Idle /\ ins_po_lines = Idle
    /\ ins_payload = Idle /\ ins_argument = Idle

(***************************************************************************)
(* The file systems the tool is started on.                                *)
(***************************************************************************)

\* texts of the metadata: plain ones, and one that holds an entity
T_HELLO == <<"H", "e", "l", "l", "o">>
T_HALLO == <<"H", "a", "l", "l", "o">>
T_OTHER == <<"O", "t", "h", "e", "r">>
T_BYE == <<"B", "y", "e">>
T_AMP == <<"R", "&", "a", "m", "p", ";", "B">>

\* a lifecyclestate type
T_BROKEN == <<"b", "r", "o", "k", "e", "n">>

\* the msgctxt of a po entry that is not metadata
T_SETTINGS == <<"#", "3", "0", "0", "0", "0">>
INDENT == <<" ", " ">>
NL == <<"\n">>

\* the lines of an addon.xml
X_ADDON_OPEN == <<"<", "a", "d", "d", "o", "n", " ", "i", "d", "=", "\"", "a", "\"", ">", "\n">>
X_METADATA_OPEN == <<" ", "<", "e", "x", "t", "e", "n", "s", "i", "o", "n", " ", "p", "o", "i",
    "n", "t", "=", "\"", "x", "b", "m", "c", ".", "a", "d", "d", "o", "n", ".", "m", "e", "t",
    "a", "d", "a", "t", "a", "\"", ">", "\n">>
X_PLATFORM == <<" ", " ", "<", "p", "l", "a", "t", "f", "o", "r", "m", ">", "a", "l", "l", "<",
    "/", "p", "l", "a", "t", "f", "o", "r", "m", ">", "\n">>
X_METADATA_CLOSE == <<" ", "<", "/", "e", "x", "t", "e", "n", "s", "i", "o", "n", ">", "\n">>
X_ADDON_CLOSE == <<"<", "/", "a", "d", "d", "o", "n", ">", "\n">>

\* the lines of a po header
P_MSGID_EMPTY == <<"m", "s", "g", "i", "d", " ", "\"", "\"", "\n">>
P_MSGSTR_EMPTY == <<"m", "s", "g", "s", "t", "r", " ", "\"", "\"", "\n">>
P_LANGUAGE == <<"\"", "L", "a", "n", "g", "u", "a", "g", "e", ":", " ", "x", "x", "\\", "n",
    "\"", "\n">>

\* directories of po files, and a directory os.walk passes over
PATH_EN_GB == <<"r", "e", "s", "o", "u", "r", "c", "e", "s", "/", "l", "a", "n", "g", "u", "a",
    "g", "e", "/", "r", "e", "s", "o", "u", "r", "c", "e", ".", "l", "a", "n", "g", "u", "a",
    "g", "e", ".", "e", "n", "_", "g", "b">>
PATH_DE_DE == <<"r", "e", "s", "o", "u", "r", "c", "e", "s", "/", "l", "a", "n", "g", "u", "a",
    "g", "e", "/", "r", "e", "s", "o", "u", "r", "c", "e", ".", "l", "a", "n", "g", "u", "a",
    "g", "e", ".", "d", "e", "_", "d", "e">>
PATH_OTHER == <<"r", "e", "s", "o", "u", "r", "c", "e", "s", "/", "l", "a", "n", "g", "u", "a",
    "g", "e">>
S_STRINGS_PO == <<"s", "t", "r", "i", "n", "g", "s", ".", "p", "o">>

\* the current directory, a directory under it, the k-th add-on directory of a
\* working directory, a directory two levels below an add-on directory, and a
\* path that names no directory
DIR_DOT == <<".">>
DIR_SUB == <<"s", "u", "b">>
DirName(k) == <<"d", Latin1[49 + k]>>
DIR_BELOW == <<"a", "/", "b">>
DIR_MISSING == <<"n", "o", "w", "h", "e", "r", "e">>

\* other ways to write a path: sub through '..', sub from the root, the current
\* directory through sub, and a sub the root does not hold
DIR_SUB_BACK == DIR_SUB \o <<"/", ".", ".", "/">> \o DIR_SUB
DIR_SUB_ROOT == <<"/">> \o Cwd[1] \o <<"/">> \o DIR_SUB
DIR_SUB_UP == DIR_SUB \o <<"/", ".", ".">>
DIR_ROOT_SUB == <<"/">> \o DIR_SUB

\* the metadata lines of an addon.xml
SummaryLine(language_code, body) ==
    XmlLine(S_SUMMARY_OPEN, S_SUMMARY_CLOSE, INDENT, language_code, body)

DescriptionLine(language_code, body) ==
    XmlLine(S_DESCRIPTION_OPEN, S_DESCRIPTION_CLOSE, INDENT, language_code, body)

LifecyclestateLine(language_code, body) ==
    XmlLifecyclestateLine(INDENT, T_BROKEN, language_code, body)

\* a line with an xml comment after its element
X_COMMENT == <<" ", "<", "!", "-", "-", " ", "c", " ", "-", "-", ">">>

CommentedLine(line) == SubSeq(line, 1, Len(line) - 1) \o X_COMMENT \o NL

\* an addon.xml file with the given lines in its metadata extension
Manifest(elements) ==
    [is_file |-> TRUE,
     content |-> Join(<<X_ADDON_OPEN, X_METADATA_OPEN>> \o elements
                      \o <<X_PLATFORM, X_METADATA_CLOSE, X_ADDON_CLOSE>>)]

\* an addon.xml with no metadata extension
ManifestNoAnchor ==
    [is_file |-> TRUE,
     content |-> Join(<<X_ADDON_OPEN, SummaryLine(LANG_EN_GB, T_HELLO), X_ADDON_CLOSE>>)]

\* no addon.xml in the directory
NoManifest == [is_file |-> FALSE, content |-> <<>>]

Manifests == {
    Manifest(<<SummaryLine(LANG_EN_GB, T_HELLO)>>),
    Manifest(<<SummaryLine(LANG_EN_GB, T_HELLO), SummaryLine(LANG_DE_DE, T_HALLO)>>),
    Manifest(<<SummaryLine(LANG_EN_GB, T_OTHER)>>),
    Manifest(<<SummaryLine(LANG_EN_GB, T_HELLO), SummaryLine(LANG_DE_DE, T_BYE)>>),
    Manifest(<<SummaryLine(LANG_EN_GB, T_AMP)>>),
    Manifest(<<SummaryLine(LANG_EN_GB, T_HELLO), DescriptionLine(LANG_DE_DE, T_HALLO)>>),
    Manifest(<<SummaryLine(LANG_EN_GB, T_HELLO), LifecyclestateLine(LANG_EN_GB, T_BYE)>>),
    Manifest(<<NL, SummaryLine(LANG_EN_GB, T_HELLO)>>),
    Manifest(<<SummaryLine(LANG_EN_GB, T_HELLO),
               CommentedLine(DescriptionLine(LANG_EN_GB, T_BYE))>>),
    Manifest(<<>>),
    ManifestNoAnchor,
    NoManifest }

PoHeader == <<P_MSGID_EMPTY, P_MSGSTR_EMPTY, P_LANGUAGE, NL>>

PoEntry(ctxt, msgid, msgstr) ==
    <<POTPL_MSGCTXT(ctxt), POTPL_MSGID(msgid), POTPL_MSGSTR(msgstr), NL>>

PoFile(path, content_lines) ==
    [path |-> path, filename |-> S_STRINGS_PO, content |-> Join(content_lines)]

\* the file as an editor that ends lines with '\r\n' saves it
WithCRLF(file) == [file EXCEPT !.content = Replace(@, <<"\n">>, <<"\r", "\n">>)]

\* the po files of a directory, in the order os.walk yields them
Catalogs == {
    <<>>,
    <<PoFile(PATH_DE_DE, PoHeader \o PoEntry(CTXT_SUMMARY, T_HELLO, T_HALLO))>>,
    <<PoFile(PATH_EN_GB, PoHeader \o PoEntry(CTXT_SUMMARY, T_HELLO, <<>>))>>,
    <<PoFile(PATH_EN_GB, PoHeader \o PoEntry(CTXT_SUMMARY, T_HELLO, <<>>)),
      PoFile(PATH_DE_DE, PoHeader \o PoEntry(CTXT_SUMMARY, T_HELLO, T_HALLO)
                         \o SubSeq(PoEntry(T_SETTINGS, T_OTHER, T_BYE), 1, 3))>>,
    <<PoFile(PATH_EN_GB, PoHeader), PoFile(PATH_DE_DE, PoHeader)>>,
    <<PoFile(PATH_EN_GB, PoHeader),
      PoFile(PATH_DE_DE, PoHeader \o PoEntry(CTXT_SUMMARY, T_HELLO, T_HALLO))>>,
    <<PoFile(PATH_EN_GB, PoHeader \o PoEntry(CTXT_SUMMARY, T_HELLO, <<>>)),
      PoFile(PATH_DE_DE, PoHeader \o PoEntry(CTXT_SUMMARY, T_HELLO, <<>>))>>,
    <<PoFile(PATH_OTHER, PoHeader),
      PoFile(PATH_EN_GB, PoEntry(CTXT_SUMMARY, T_HELLO, <<>>))>>,
    <<PoFile(PATH_EN_GB, PoHeader \o PoEntry(CTXT_SUMMARY, T_HELLO, <<>>)
                         \o PoEntry(CTXT_LIFECYCLESTATE, T_BYE, <<>>)),
      PoFile(PATH_DE_DE, PoHeader \o PoEntry(CTXT_LIFECYCLESTATE, T_BYE, T_OTHER))>> }

\* an add-on directory: its path, its addon.xml, the addon.xml.in files and the
\* po files under it, each with the path of its directory from the add-on's
Package(dir, addon_xml, addon_xml_in, po) ==
    [dir |-> dir, addon_xml |-> addon_xml, addon_xml_in |-> addon_xml_in, po |-> po]

\* an addon.xml.in in the directory path of an add-on, holding what the
\* addon.xml given holds
AddonXmlIn(path, addon_xml) == [path |-> path, content |-> addon_xml.content]

\* the package in another directory
At(package, dir) == [package EXCEPT !.dir = dir]

\* the files of an add-on directory, in the order os.walk visits them
FilesOf(package) ==
    (IF package.addon_xml.is_file
     THEN <<[path |-> package.dir, filename |-> S_ADDON_XML,
             content |-> package.addon_xml.content]>>
     ELSE <<>>)
    \o [i \in 1..Len(package.addon_xml_in) |->
            [path |-> PathJoin(package.dir, package.addon_xml_in[i].path),
             filename |-> S_ADDON_XML_IN,
             content |-> package.addon_xml_in[i].content]]
    \o [i \in 1..Len(package.po) |->
            [path |-> PathJoin(package.dir, package.po[i].path),
             filename |-> package.po[i].filename,
             content |-> package.po[i].content]]

RECURSIVE FilesOfAll(_)
FilesOfAll(packages) ==
    IF packages = <<>> THEN <<>> ELSE FilesOf(Head(packages)) \o FilesOfAll(Tail(packages))

\* the file system that holds the add-on directories given
FileSystem(packages) ==
    [dirs |-> [k \in 1..Len(packages) |-> packages[k].dir], files |-> FilesOfAll(packages)]

\* one add-on in the current directory
Packages ==
    { Package(DIR_DOT, addon_xml, <<>>, po) : addon_xml \in Manifests, po \in Catalogs }

\* the po files of an add-on with a summary in two languages
CatalogsOfTwo ==
    <<PoFile(PATH_EN_GB, PoHeader \o PoEntry(CTXT_SUMMARY, T_HELLO, <<>>)),
      PoFile(PATH_DE_DE, PoHeader \o PoEntry(CTXT_SUMMARY, T_HELLO, T_HALLO))>>

\* binary add-ons: the manifest is an addon.xml.in, in the directory or two
\* levels below it, next to an addon.xml, or one of two
BinaryPackages == {
    Package(DIR_DOT, NoManifest,
            <<AddonXmlIn(<<>>, Manifest(<<SummaryLine(LANG_EN_GB, T_HELLO)>>))>>,
            CatalogsOfTwo),
    Package(DIR_DOT, NoManifest,
            <<AddonXmlIn(DIR_BELOW, Manifest(<<SummaryLine(LANG_EN_GB, T_OTHER)>>))>>,
            CatalogsOfTwo),
    Package(DIR_DOT, Manifest(<<SummaryLine(LANG_EN_GB, T_OTHER)>>),
            <<AddonXmlIn(<<>>, Manifest(<<SummaryLine(LANG_EN_GB, T_HELLO)>>))>>,
            CatalogsOfTwo),
    Package(DIR_DOT, NoManifest,
            <<AddonXmlIn(<<>>, Manifest(<<SummaryLine(LANG_EN_GB, T_HELLO)>>)),
              AddonXmlIn(DIR_BELOW, ManifestNoAnchor)>>,
            CatalogsOfTwo) }

\* add-ons whose files end their lines with '\r\n'
CrlfPackages == {
    Package(DIR_DOT, WithCRLF(Manifest(<<SummaryLine(LANG_EN_GB, T_HELLO)>>)), <<>>,
            <<WithCRLF(CatalogsOfTwo[1]), WithCRLF(CatalogsOfTwo[2])>>),
    Package(DIR_DOT,
            WithCRLF(Manifest(<<SummaryLine(LANG_DE_DE, T_HALLO),
                                SummaryLine(LANG_EN_GB, T_HELLO)>>)), <<>>,
            <<WithCRLF(CatalogsOfTwo[1]), CatalogsOfTwo[2]>>) }

\* the add-on directories of a working directory given with --multiple-addons
MultiPackages == {
    Package(DIR_DOT, Manifest(<<SummaryLine(LANG_EN_GB, T_HELLO)>>), <<>>,
            <<PoFile(PATH_EN_GB, PoHeader \o PoEntry(CTXT_SUMMARY, T_OTHER, <<>>))>>),
    Package(DIR_DOT, ManifestNoAnchor, <<>>,
            <<PoFile(PATH_EN_GB, PoHeader \o PoEntry(CTXT_SUMMARY, T_HELLO, <<>>))>>),
    Package(DIR_DOT, NoManifest, <<>>, <<>>),
    Package(DIR_DOT, Manifest(<<>>), <<>>, <<PoFile(PATH_DE_DE, PoHeader)>>) }

\* the add-ons put in the directories d1, d2, ... of the directory top
Under(top, packages) ==
    [k \in 1..Len(packages) |-> At(packages[k], PathJoin(top, DirName(k)))]

\* the command lines: -ptx, -xtp, both flags, neither, -multi, --version, -path
Namespace(po_to_xml_flag, xml_to_po_flag, multiple_addons, version, path) ==
    [po_to_xml |-> po_to_xml_flag, xml_to_po |-> xml_to_po_flag,
     multiple_addons |-> multiple_addons, version |-> version, path |-> path]

\* the modes of a sync: -ptx, -xtp, neither
Modes == { <<TRUE, FALSE>>, <<FALSE, TRUE>>, <<FALSE, FALSE>> }

SingleStarts ==
    { <<Namespace(ptx, xtp, FALSE, FALSE, DIR_DOT), FileSystem(<<package>>)>> :
        ptx \in BOOLEAN, xtp \in BOOLEAN,
        package \in Packages \cup BinaryPackages \cup CrlfPackages }

MultiStarts ==
    { <<Namespace(mode[1], mode[2], TRUE, FALSE, DIR_DOT), FileSystem(Under(<<>>, packages))>> :
        mode \in Modes,
        packages \in UNION { ListsOfLen(MultiPackages, n) : n \in 1..MaxAddons } }

VersionStarts ==
    { <<Namespace(FALSE, FALSE, FALSE, TRUE, path),
        FileSystem(<<Package(DIR_DOT, NoManifest, <<>>, <<>>)>>)>> :
        path \in {DIR_DOT, DIR_MISSING} }

\* starts with -path: on an add-on in the directory sub, with the path written
\* in several ways, on add-ons in the directories of sub (with and without a
\* directory of the same name in the current directory), and on a path that
\* names no directory
PathStarts ==
    { <<Namespace(mode[1], mode[2], FALSE, FALSE, path),
        FileSystem(<<At(package, DIR_SUB)>>)>> :
        mode \in Modes,
        path \in {DIR_SUB, DIR_SUB_BACK, DIR_SUB_ROOT, DIR_SUB_UP, DIR_ROOT_SUB},
        package \in { Package(DIR_DOT, Manifest(<<SummaryLine(LANG_EN_GB, T_HELLO)>>), <<>>,
                               CatalogsOfTwo) } \cup BinaryPackages }
    \cup { <<Namespace(mode[1], mode[2], TRUE, FALSE, DIR_SUB),
             FileSystem(Under(DIR_SUB, packages) \o here)>> :
             mode \in Modes,
             packages \in ListsOfLen(MultiPackages, MaxAddons),
             here \in { <<>>, <<Package(DirName(1),
                                        Manifest(<<SummaryLine(LANG_EN_GB, T_HELLO)>>), <<>>,
                                        CatalogsOfTwo)>> } }
    \cup { <<Namespace(mode[1], mode[2], multiple_addons, FALSE, DIR_MISSING),
             FileSystem(<<Package(DIR_DOT, Manifest(<<SummaryLine(LANG_EN_GB, T_HELLO)>>), <<>>,
                                  CatalogsOfTwo)>>)>> :
             mode \in Modes, multiple_addons \in BOOLEAN }


(***************************************************************************)
(* main(): one start of the tool, statement by statement.                  *)
(***************************************************************************)
\* the lines main() and po_to_xml() print about the outcome of a directory
MSG_VERSION == "Version"
MSG_FOUND_ADDON_XML_IN == "Found addon.xml.in"
MSG_NO_ADDON_XML == "No addon.xml file found... aborted"
MSG_NO_PO_FILES == "No po files found... aborted"
MSG_NO_EN_GB == "No en_gb po file found... aborted"
MSG_MODIFIED == "addon.xml has been modified... completed"
MSG_NO_CHANGES == "No changes made to addon.xml... completed"

Init ==
    /\ \E start \in SingleStarts \cup MultiStarts \cup VersionStarts \cup PathStarts :
           args = start[1] /\ disk = start[2]
    /\ directories = <<>> /\ dir_i = 0 /\ pc = "main"
    /\ _addon_xml = <<>> /\ _po_index = <<>>
    /\ exit_code = NoExit /\ stdout = <<>>
    /\ run = 1 /\ disk_first = <<>>
    /\ ptx_log = <<>> /\ xtp_log = <<>>
    /\ EscIdle /\ MrgIdle /\ PolIdle /\ InsIdle

\* directory_type(string): the string, or the NotADirectoryError raised
directory_type(files, string) == [raised |-> ~ IsDir(files, string), value |-> string]

\* lines 943-964: the arguments are parsed and the directory list is built. The
\* NotADirectoryError of directory_type leaves parse_args uncaught and ends the
\* process with status 1, before the version is looked at
Main ==
    /\ pc = "main"
    /\ IF directory_type(disk, args.path).raised
       THEN /\ exit_code' = 1
            /\ pc' = "raised"
            /\ UNCHANGED <<stdout, directories>>
       ELSE IF args.version
       THEN /\ stdout' = Append(stdout, MSG_VERSION)
            /\ exit_code' = 0
            /\ pc' = "done"
            /\ UNCHANGED directories
       ELSE /\ directories' = IF args.multiple_addons
                              THEN ListDirectories(disk, args.path)
                              ELSE <<args.path>>
            /\ pc' = "for"
            /\ UNCHANGED <<stdout, exit_code>>
    /\ UNCHANGED <<args, disk, dir_i, _addon_xml, _po_index, run, disk_first,
                   ptx_log, xtp_log, esc_vars, mrg_vars, pol_vars,
                   ins_vars>>

\* line 966: the for loop takes the next directory, or ends
ForDirectory ==
    /\ pc = "for"
    /\ IF dir_i < Len(directories)
       THEN dir_i' = dir_i + 1 /\ pc' = "get_addon_xml"
       ELSE dir_i' = dir_i /\ pc' = "exit"
    /\ UNCHANGED <<args, disk, directories, _addon_xml, _po_index, exit_code, stdout,
                   run, disk_first, ptx_log, xtp_log, esc_vars, mrg_vars, pol_vars,
                   ins_vars>>

\* lines 969-972; find_addon_xml_in prints the addon.xml.in it returns, and
\* what it returns is a file
GetAddonXml ==
    /\ pc = "get_addon_xml"
    /\ _addon_xml' = get_addon_xml(disk, directories[dir_i])
    /\ IF _addon_xml' = <<>>
       THEN stdout' = Append(stdout, MSG_NO_ADDON_XML) /\ pc' = "for"
       ELSE /\ stdout' = IF EndsWith(_addon_xml'.filename, S_ADDON_XML_IN)
                         THEN Append(stdout, MSG_FOUND_ADDON_XML_IN)
                         ELSE stdout
            /\ pc' = "generate_po_index"
    /\ UNCHANGED <<args, disk, directories, dir_i, _po_index, exit_code,
                   run, disk_first, ptx_log, xtp_log, esc_vars, mrg_vars, pol_vars,
                   ins_vars>>

\* lines 974-977
GeneratePoIndex ==
    /\ pc = "generate_po_index"
    /\ _po_index' = generate_po_index(disk, directories[dir_i])
    /\ IF _po_index' = <<>>
       THEN stdout' = Append(stdout, MSG_NO_PO_FILES) /\ pc' = "for"
       ELSE stdout' = stdout /\ pc' = "get_default_po"
    /\ UNCHANGED <<args, disk, directories, dir_i, _addon_xml, exit_code,
                   run, disk_first, ptx_log, xtp_log, esc_vars, mrg_vars, pol_vars,
                   ins_vars>>

\* lines 979-992: the default po is looked up and the sync to run is chosen
GetDefaultPo ==
    /\ pc = "get_default_po"
    /\ IF get_default_po(_po_index) = <<>>
       THEN stdout' = Append(stdout, MSG_NO_EN_GB) /\ pc' = "for"
       ELSE /\ stdout' = stdout
            /\ pc' = IF args.po_to_xml THEN "po_to_xml"
                     ELSE IF args.xml_to_po THEN "xml_to_po"
                     ELSE "po_to_xml"
    /\ UNCHANGED <<args, disk, directories, dir_i, _addon_xml, _po_index, exit_code,
                   run, disk_first, ptx_log, xtp_log, esc_vars, mrg_vars, pol_vars,
                   ins_vars>>
\* lines 936 and 939: the last line po_to_xml prints
PoToXmlPrints(result) ==
    IF result.raised THEN "" ELSE IF result.writes THEN MSG_MODIFIED ELSE MSG_NO_CHANGES

\* what main() and the file system are left with by a call of po_to_xml that
\* ended with result; the Exception of get_xml_insert_index is caught nowhere
\* and ends the process with status 1
PoToXmlReturns(directory, result) ==
    /\ _addon_xml' = result.addon_xml
    /\ ptx_log' = [directory |-> directory,
                   content_lines |-> _addon_xml.content_lines,
                   po_index |-> _po_index,
                   raised |-> result.raised,
                   payload |-> result.payload,
                   written |-> result.writes,
                   printed |-> PoToXmlPrints(result)]
    /\ IF result.raised
       THEN /\ pc' = "raised"
            /\ exit_code' = 1
            /\ UNCHANGED <<disk, stdout>>
       ELSE /\ disk' = IF result.writes
                       THEN WriteFile(disk, _addon_xml.filename, result.payload)
                       ELSE disk
            /\ stdout' = Append(stdout, PoToXmlPrints(result))
            /\ pc' = IF args.po_to_xml THEN "for" ELSE "xml_to_po"
            /\ UNCHANGED exit_code

\* lines 985 and 992: po_to_xml(_addon_xml, _po_index)
PoToXml ==
    /\ pc = "po_to_xml"
    /\ PoToXmlReturns(directories[dir_i], po_to_xml(_addon_xml, _po_index))
    /\ UNCHANGED <<args, directories, dir_i, _po_index, run, disk_first, xtp_log,
                   esc_vars, mrg_vars, pol_vars,
                   ins_vars>>

\* what the file system is left with by a call of xml_to_po that ended with result
XmlToPoReturns(directory, result) ==
    /\ xtp_log' = [directory |-> directory,
                   addon_xml |-> _addon_xml,
                   po_index |-> _po_index,
                   payload_index |-> result.payload_index,
                   written |-> result.written]
    /\ disk' = WritePoFiles(disk, result.payload_index, result.written, 1)

\* lines 989 and 993: xml_to_po(_addon_xml, _po_index), with priority='po' after
\* po_to_xml; both calls are given the dict and the index read before any write
XmlToPo ==
    /\ pc = "xml_to_po"
    /\ XmlToPoReturns(directories[dir_i],
                      xml_to_po(_addon_xml, _po_index,
                                IF args.xml_to_po THEN "xml" ELSE "po"))
    /\ pc' = "for"
    /\ UNCHANGED <<args, directories, dir_i, _addon_xml, _po_index, exit_code, stdout,
                   run, disk_first, ptx_log, esc_vars, mrg_vars, pol_vars,
                   ins_vars>>

\* line 995: sys.exit(0)
SysExit ==
    /\ pc = "exit"
    /\ exit_code' = 0
    /\ pc' = "done"
    /\ UNCHANGED <<args, disk, directories, dir_i, _addon_xml, _po_index, stdout,
                   run, disk_first, ptx_log, xtp_log, esc_vars, mrg_vars, pol_vars,
                   ins_vars>>

\* the tool is started again, with the same command line, on the files it left
Rerun ==
    /\ pc \in {"done", "raised"}
    /\ run < MaxRuns
    /\ run' = run + 1
    /\ disk_first' = IF run = 1 THEN disk ELSE disk_first
    /\ pc' = "main"
    /\ directories' = <<>> /\ dir_i' = 0
    /\ _addon_xml' = <<>> /\ _po_index' = <<>>
    /\ exit_code' = NoExit /\ stdout' = <<>>
    /\ ptx_log' = <<>> /\ xtp_log' = <<>>
    /\ UNCHANGED <<args, disk, esc_vars, mrg_vars, pol_vars,
                   ins_vars>>

Next ==
    \/ Main
    \/ ForDirectory
    \/ GetAddonXml
    \/ GeneratePoIndex
    \/ GetDefaultPo
    \/ PoToXml
    \/ XmlToPo
    \/ SysExit
    \/ Rerun

Spec == Init /\ [][Next]_vars


(***************************************************************************)
(* escape_characters on its own: a text is escaped for one destination,    *)
(* and the result for the other.                                           *)
(***************************************************************************)
InitEscape ==
    /\ esc_input \in { << <<LANG_EN_GB, x>> >> : x \in EscapeTexts }
    /\ esc_value = esc_input
    /\ esc_trace = <<>>
    /\ MainIdle /\ MrgIdle /\ PolIdle /\ InsIdle

EscapeForPo ==
    /\ Len(esc_trace) < MaxEscapes
    /\ esc_value' = escape_characters(esc_value, "po")
    /\ esc_trace' = Append(esc_trace, "po")
    /\ UNCHANGED <<esc_input, main_vars, mrg_vars, pol_vars, ins_vars>>

EscapeForXml ==
    /\ Len(esc_trace) < MaxEscapes
    /\ esc_value' = escape_characters(esc_value, "xml")
    /\ esc_trace' = Append(esc_trace, "xml")
    /\ UNCHANGED <<esc_input, main_vars, mrg_vars, pol_vars, ins_vars>>

NextEscape == EscapeForPo \/ EscapeForXml

SpecEscape == InitEscape /\ [][NextEscape]_vars

(***************************************************************************)
(* merge_items on its own.                                                 *)
(***************************************************************************)
InitMerge ==
    /\ mrg_one \in MergeLists
    /\ mrg_two \in MergeLists
    /\ mrg_payload = <<>>
    /\ mrg_done = FALSE
    /\ MainIdle /\ EscIdle /\ PolIdle /\ InsIdle

MergeItemsCall ==
    /\ ~ mrg_done
    /\ mrg_payload' = merge_items(mrg_one, mrg_two)
    /\ mrg_done' = TRUE
    /\ UNCHANGED <<mrg_one, mrg_two, main_vars, esc_vars, pol_vars, ins_vars>>

NextMerge == MergeItemsCall

SpecMerge == InitMerge /\ [][NextMerge]_vars

(***************************************************************************)
(* remove_po_lines, get_po_insert_index and format_po_lines on their own:  *)
(* each is called once on the lines of a po file put together from pieces. *)
(***************************************************************************)
\* a continuation line, a comment, and the pieces po lines are made of: the
\* header, a blank line, entries of the kinds the tool manages (one with
\* a msgstr on two lines), an entry of another kind, a lone continuation line
P_CONTINUED == <<"\"", "H", "a", "l", "l", "o", "\"", "\n">>
P_COMMENT == <<"#", " ", "c", "\n">>
\* a line of whitespace other than the space: a vertical tab, a no-break space
P_BLANK == <<"", " ", "\n">>

PoPieces == {
    <<P_MSGID_EMPTY, P_MSGSTR_EMPTY, P_LANGUAGE>>,
    <<NL>>,
    SubSeq(PoEntry(CTXT_SUMMARY, T_HELLO, T_HALLO), 1, 3),
    SubSeq(PoEntry(CTXT_DESCRIPTION, T_HELLO, T_BYE), 1, 3),
    <<POTPL_MSGCTXT(CTXT_DISCLAIMER), POTPL_MSGID(T_HELLO), P_MSGSTR_EMPTY, P_CONTINUED>>,
    SubSeq(PoEntry(T_SETTINGS, T_OTHER, T_BYE), 1, 3),
    <<P_COMMENT>>,
    <<P_BLANK>>,
    <<P_CONTINUED>> }

PoLineInputs == { Join(pieces) : pieces \in UNION { ListsOfLen(PoPieces, n) : n \in 0..MaxPieces } }

InitPoLines ==
    /\ pol_lines \in PoLineInputs
    /\ pol_call = ""
    /\ pol_result = <<>>
    /\ MainIdle /\ EscIdle /\ MrgIdle /\ InsIdle

\* remove_po_lines on an index of one po file: the lines it returns for the file
RemovePoLines ==
    /\ pol_call = ""
    /\ pol_call' = "remove_po_lines"
    /\ pol_result' = remove_po_lines(<<[language_code |-> LANG_DE_DE,
                                        content_lines |-> pol_lines]>>)[1].content_lines
    /\ UNCHANGED <<pol_lines, main_vars, esc_vars, mrg_vars, ins_vars>>

GetPoInsertIndex ==
    /\ pol_call = ""
    /\ pol_call' = "get_po_insert_index"
    /\ pol_result' = get_po_insert_index(pol_lines)
    /\ UNCHANGED <<pol_lines, main_vars, esc_vars, mrg_vars, ins_vars>>

FormatPoLines ==
    /\ pol_call = ""
    /\ pol_call' = "format_po_lines"
    /\ pol_result' = format_po_lines(pol_lines)
    /\ UNCHANGED <<pol_lines, main_vars, esc_vars, mrg_vars, ins_vars>>

NextPoLines == RemovePoLines \/ GetPoInsertIndex \/ FormatPoLines

SpecPoLines == InitPoLines /\ [][NextPoLines]_vars

(***************************************************************************)
(* insert_po_lines on its own: called once on an index of one or two po    *)
(* files, as remove_po_lines hands it over, and a dict of lines by         *)
(* language, as merge_po_lines builds it.                                  *)
(***************************************************************************)
\* the pieces of the po files: the header without the line that closes it, a
\* blank line, an entry of a kind the tool does not manage, a comment
InsertPieces == {
    <<P_MSGID_EMPTY, P_MSGSTR_EMPTY, P_LANGUAGE>>,
    <<NL>>,
    SubSeq(PoEntry(T_SETTINGS, T_OTHER, T_BYE), 1, 3),
    <<P_COMMENT>>,
    <<P_BLANK>> }

\* the lines readlines() gives for a file whose last line has no '\n'
WithoutFinalNewline(lines) ==
    LET last == lines[Len(lines)]
    IN  SubSeq(lines, 1, Len(lines) - 1) \o <<SubSeq(last, 1, Len(last) - 1)>>

InsertLineInputs ==
    LET whole == { Join(pieces) :
                     pieces \in UNION { ListsOfLen(InsertPieces, n) : n \in 0..MaxPieces } }
    IN  whole \cup { WithoutFinalNewline(lines) :
                       lines \in { l \in whole : l # <<>> /\ l[Len(l)] # NL } }

\* an index of the en_GB file alone, and one of the de_DE file after an en_GB
\* file that holds a header
InsertIndexes ==
    { generate_po_index(FileSystem(<<Package(DIR_DOT, NoManifest, <<>>,
                                             <<PoFile(PATH_EN_GB, lines)>>)>>), DIR_DOT) :
        lines \in InsertLineInputs }
    \cup { generate_po_index(FileSystem(<<Package(DIR_DOT, NoManifest, <<>>,
                                                  <<PoFile(PATH_EN_GB, PoHeader),
                                                    PoFile(PATH_DE_DE, lines)>>)>>),
                             DIR_DOT) :
              lines \in InsertLineInputs }

\* the dicts merge_po_lines builds: none of the kinds has items; an en_GB
\* summary; a summary in en_GB and de_DE with a description in en_GB only
InsertDicts == {
    merge_po_lines(<<>>, <<>>, <<>>, <<>>),
    merge_po_lines(get_po_lines(<< <<LANG_EN_GB, T_HELLO>> >>, CTXT_SUMMARY), <<>>, <<>>, <<>>),
    merge_po_lines(get_po_lines(<< <<LANG_EN_GB, T_HELLO>>, <<LANG_DE_DE, T_HALLO>> >>,
                                CTXT_SUMMARY),
                   get_po_lines(<< <<LANG_EN_GB, T_OTHER>> >>, CTXT_DESCRIPTION),
                   <<>>, <<>>) }

InitInsert ==
    /\ ins_po_index \in InsertIndexes
    /\ ins_po_lines \in InsertDicts
    /\ ins_payload = <<>>
    /\ ins_argument = <<>>
    /\ MainIdle /\ EscIdle /\ MrgIdle /\ PolIdle

\* payload_index = insert_po_lines(po_index, po_lines): the index returned and
\* the list given as the call leaves it
InsertPoLines ==
    /\ ins_argument = <<>>
    /\ ins_payload' = insert_po_lines(ins_po_index, ins_po_lines)
    /\ ins_argument' = InsertPoLinesArgument(ins_po_index, ins_po_lines)
    /\ UNCHANGED <<ins_po_index, ins_po_lines, main_vars, esc_vars, mrg_vars, pol_vars>>

NextInsert == InsertPoLines

SpecInsert == InitInsert /\ [][NextInsert]_vars

(***************************************************************************)
(* Claims about a start of the tool.                                       *)
(***************************************************************************)
\* the kinds of metadata: the expression that extracts one from the addon.xml
\* and the msgctxt that holds it in a po file
Kinds == { [re |-> RE_SUMMARY, ctxt |-> CTXT_SUMMARY],
           [re |-> RE_DESCRIPTION, ctxt |-> CTXT_DESCRIPTION],
           [re |-> RE_DISCLAIMER, ctxt |-> CTXT_DISCLAIMER],
           [re |-> RE_LIFECYCLESTATE, ctxt |-> CTXT_LIFECYCLESTATE] }

\* the (language_code, body) items of one kind in the lines of an addon.xml
ManifestItems(content_lines, re) == DropWhitespace(FindAll(re, Join(content_lines)))

\* the body an addon.xml gives a language for one kind, '' if it gives none
ManifestText(content_lines, re, language_code) ==
    FirstWithCode(ManifestItems(content_lines, re), language_code, <<language_code, <<>>>>)[2]

\* the text a po file stores for one kind (msgid for en_GB, msgstr otherwise),
\* '' if it stores none
CatalogText(po_file, ctxt) ==
    FirstWithCode(get_po_metadata(<<po_file>>, ctxt), po_file.language_code,
                  <<po_file.language_code, <<>>>>)[2]

\* the same value modulo each format's escaping: equal, or the manifest text is
\* the po text escaped for xml, or the po text is the manifest text escaped for po
SameModuloEscaping(xml_text, po_text) ==
    \/ xml_text = po_text
    \/ xml_text = EscapeXmlString(po_text)
    \/ po_text = EscapePoString(xml_text)

\* a both-direction pass on the one package of the run has ended
BothPassDone ==
    /\ pc = "done"
    /\ ~ args.po_to_xml /\ ~ args.xml_to_po /\ ~ args.multiple_addons /\ ~ args.version
    /\ ptx_log # <<>> /\ xtp_log # <<>>

\* C1 as stated: after a successful both-direction pass on one package, for
\* every kind of metadata and every language that has a po file, the text in
\* the written addon.xml and the text in that language's written po file are
\* the same value modulo escaping.
C1_ManifestAndCatalogsAgree ==
    BothPassDone =>
        \A kind \in Kinds :
            LET po_index == generate_po_index(disk, args.path)
            IN  \A i \in 1..Len(po_index) :
                    SameModuloEscaping(
                        ManifestText(get_addon_xml(disk, args.path).content_lines, kind.re,
                                     po_index[i].language_code),
                        CatalogText(po_index[i], kind.ctxt))

\* C2 as stated: a second run of the same pass on the files the first run left
\* leaves the addon.xml and every po file as the first run left them.
C2_SecondRunChangesNothing ==
    (pc = "done" /\ run >= 2) => disk = disk_first

\* C3 as stated: po_to_xml writes the addon.xml only when the lines it built
\* differ from the lines read from the file; when they are equal it writes
\* nothing and prints that no changes were made.
C3_ManifestWrittenOnlyOnDifference ==
    (ptx_log # <<>> /\ ~ ptx_log.raised) =>
        /\ ptx_log.written => ptx_log.payload # ptx_log.content_lines
        /\ ptx_log.payload = ptx_log.content_lines =>
               ~ ptx_log.written /\ ptx_log.printed = MSG_NO_CHANGES

\* C4: xml_to_po writes a po file if and only if the lines it built for it
\* differ from the lines read from it; a file whose lines are unchanged is left
\* on disk as it was read, a written one holds the lines built.
C4_CatalogWrittenIffChanged ==
    xtp_log # <<>> =>
        LET on_disk == generate_po_index(disk, xtp_log.directory)
        IN  /\ Len(xtp_log.payload_index) = Len(xtp_log.po_index)
            /\ Len(on_disk) = Len(xtp_log.po_index)
            /\ \A i \in 1..Len(xtp_log.po_index) :
                   /\ i \in xtp_log.written <=>
                          xtp_log.payload_index[i].content_lines
                              # xtp_log.po_index[i].content_lines
                   /\ on_disk[i].content_lines =
                          IF i \in xtp_log.written
                          THEN ReadLines(WriteLines(xtp_log.payload_index[i].content_lines))
                          ELSE xtp_log.po_index[i].content_lines

\* C4 witness: a call of xml_to_po that wrote one po file and left another,
\* whose lines came out as they were read, unwritten.
C4_Witness ==
    /\ xtp_log # <<>>
    /\ \E i \in 1..Len(xtp_log.po_index) : i \in xtp_log.written
    /\ \E j \in 1..Len(xtp_log.po_index) : j \notin xtp_log.written

\* C8 as stated: when po_to_xml runs on an addon.xml that holds a body for a
\* kind and a language no po file supplies, extracting that kind from the lines
\* po_to_xml built returns the body extracted before the run.
C8_ManifestOnlyValueRoundTrip ==
    (ptx_log # <<>> /\ ~ ptx_log.raised) =>
        \A kind \in Kinds :
            \A language_code \in Codes(ManifestItems(ptx_log.content_lines, kind.re))
                                     \ Codes(get_po_metadata(ptx_log.po_index, kind.ctxt)) :
                ManifestText(ptx_log.payload, kind.re, language_code)
                    = ManifestText(ptx_log.content_lines, kind.re, language_code)

\* the lines of stdout that report an aborted directory
AbortMessages == { MSG_NO_ADDON_XML, MSG_NO_PO_FILES, MSG_NO_EN_GB }

\* the messages printed in this run
Printed == { stdout[i] : i \in 1..Len(stdout) }

\* C9 as stated: the process ends with exit code 0 when the sync succeeds, and
\* with a non-zero exit code when no addon.xml, no po files or no en_GB po file
\* is found.
C9_ExitCodeReportsFailure ==
    (pc \in {"done", "raised"} /\ ~ args.version) =>
        /\ (pc = "done" /\ Printed \cap AbortMessages = {}) => exit_code = 0
        /\ Printed \cap AbortMessages # {} => exit_code # 0

\* C10 as stated: with --multiple-addons, when the pass of one directory fails
\* (no addon.xml, no po files, no en_GB po file, or an addon.xml without a
\* metadata extension), every remaining directory is still reached by the loop:
\* the process does not end before the loop has taken the last directory.
C10_EveryPackageReached ==
    (args.multiple_addons /\ pc \in {"done", "raised"}) => dir_i = Len(directories)

\* the lines hold a line opening a metadata extension
HasMetadataExtension(content_lines) ==
    \E i \in 1..Len(content_lines) :
        /\ Contains(content_lines[i], S_EXTENSION_OPEN)
        /\ Contains(content_lines[i], S_ADDON_METADATA)

\* C11 as stated: when the addon.xml holds no line opening a metadata
\* extension, the pass on the package ends in a fatal error in every mode:
\* po_to_xml raises and writes nothing, and xml_to_po ends the process
\* without writing a po file.
C11_NoAnchorIsFatal ==
    /\ (ptx_log # <<>> /\ ~ HasMetadataExtension(ptx_log.content_lines)) =>
           ptx_log.raised /\ ~ ptx_log.written
    /\ (xtp_log # <<>> /\ ~ HasMetadataExtension(xtp_log.addon_xml.content_lines)) =>
           pc = "raised" /\ xtp_log.written = {}

\* the items get_po_metadata returns for any kind hold no empty text
NoEmptyText(po_index) ==
    \A kind \in Kinds :
        LET payload == get_po_metadata(po_index, kind.ctxt)
        IN  \A i \in 1..Len(payload) : payload[i][2] # <<>>

\* C12 as stated: get_po_metadata returns no item for a po file whose text
\* for the kind is empty once the quotes, continuation marks and newlines are
\* taken out (a po file other than en_GB whose entry has msgstr ""): the
\* result of the calls made by po_to_xml and xml_to_po never holds a
\* (language_code, '') pair.
C12_NoEmptyPoMetadata ==
    /\ ptx_log # <<>> => NoEmptyText(ptx_log.po_index)
    /\ xtp_log # <<>> => NoEmptyText(xtp_log.po_index)

\* the (language_code, body) items xml_to_po and po_to_xml extract for a kind
XmlItems(addon_xml, kind) ==
    IF kind.ctxt = CTXT_LIFECYCLESTATE /\ get_lifecyclestate_type(addon_xml) = None
    THEN <<>>
    ELSE DropWhitespace(FindAll(kind.re, GetContent(addon_xml)))

\* the text the first item of a language holds, '' if there is none
TextOf(items, language_code) ==
    FirstWithCode(items, language_code, <<language_code, <<>>>>)[2]

\* the languages that have a text on both sides for a kind
InBoth(xml_items, po_items) ==
    { code \in Codes(xml_items) \cap Codes(po_items) :
        TextOf(xml_items, code) # <<>> /\ TextOf(po_items, code) # <<>> }

\* the po files of an index that hold an entry of the kind for their language
HoldingEntry(po_index, ctxt, language_code) ==
    { i \in 1..Len(po_index) :
        /\ po_index[i].language_code = language_code
        /\ language_code \in Codes(get_po_metadata(<<po_index[i]>>, ctxt)) }

\* in the po files xml_to_po built, the entries of the languages that had a
\* text on both sides hold the text of the side picked by from_xml
CatalogsHoldSide(log, from_xml) ==
    \A kind \in Kinds :
        LET xml_items == XmlItems(log.addon_xml, kind)
            po_items == get_po_metadata(log.po_index, kind.ctxt)
        IN  \A code \in InBoth(xml_items, po_items) :
                \A i \in HoldingEntry(log.payload_index, kind.ctxt, code) :
                    CatalogText(log.payload_index[i], kind.ctxt)
                        = EscapePoString(IF from_xml THEN TextOf(xml_items, code)
                                         ELSE TextOf(po_items, code))

\* in the lines po_to_xml built, the languages that had a text on both sides
\* hold the text of the po files
ManifestHoldsCatalogSide(log) ==
    \A kind \in Kinds :
        LET xml_items == ManifestItems(log.content_lines, kind.re)
            po_items == get_po_metadata(log.po_index, kind.ctxt)
        IN  \A code \in InBoth(xml_items, po_items) :
                ManifestText(log.payload, kind.re, code)
                    = EscapeXmlString(TextOf(po_items, code))

\* C13 as stated: in the xml_to_po call made for -xtp (no priority given), a
\* kind and language that has a text both in the addon.xml and in the po files
\* keeps the text of the po files in the po files written; in po_to_xml the
\* text of the po files is the one rendered.
C13_CatalogValueKept ==
    /\ (xtp_log # <<>> /\ args.xml_to_po) => CatalogsHoldSide(xtp_log, FALSE)
    /\ (ptx_log # <<>> /\ ~ ptx_log.raised) => ManifestHoldsCatalogSide(ptx_log)

\* C13 amended: the xml_to_po call made for -xtp runs with the default priority
\* 'xml' (line 793; main() gives none at line 989) and, for every kind and
\* language that has a text on both sides, the entries it builds hold the text
\* of the addon.xml (escaped for po); the call made after po_to_xml is given
\* priority='po' (line 993) and its entries hold the text of the po files; in
\* po_to_xml the text of the po files (escaped for xml) is the one rendered
\* (lines 893-896).
C13_PriorityByMode ==
    /\ xtp_log # <<>> => CatalogsHoldSide(xtp_log, args.xml_to_po)
    /\ (ptx_log # <<>> /\ ~ ptx_log.raised) => ManifestHoldsCatalogSide(ptx_log)

\* C13 witness: the xml_to_po call made for -xtp has built a po file whose
\* entry holds the text of the addon.xml where the po files read held another.
C13_Witness ==
    /\ xtp_log # <<>> /\ args.xml_to_po
    /\ \E kind \in Kinds :
           LET xml_items == XmlItems(xtp_log.addon_xml, kind)
               po_items == get_po_metadata(xtp_log.po_index, kind.ctxt)
           IN  \E code \in InBoth(xml_items, po_items) :
                   /\ TextOf(xml_items, code) # TextOf(po_items, code)
                   /\ code # LANG_EN_GB
                   /\ HoldingEntry(xtp_log.payload_index, kind.ctxt, code) # {}

\* C14 as stated: po_to_xml never drops a text only the addon.xml holds: for
\* every kind and language whose body is not empty in the addon.xml read and
\* for which no po file holds a text that is not empty, the lines po_to_xml
\* built still hold a line of that kind and language.
C14_ManifestOnlyValueKept ==
    (ptx_log # <<>> /\ ~ ptx_log.raised) =>
        \A kind \in Kinds :
            LET xml_items == ManifestItems(ptx_log.content_lines, kind.re)
                po_items == get_po_metadata(ptx_log.po_index, kind.ctxt)
            IN  \A code \in Codes(xml_items) :
                    (TextOf(xml_items, code) # <<>>
                     /\ \A i \in 1..Len(po_items) :
                            po_items[i][1] = code => po_items[i][2] = <<>>)
                    => code \in Codes(ManifestItems(ptx_log.payload, kind.re))

\* the text a kind and language has once the two sides are merged: the text of
\* the side with priority if that side has the language, else the other side's
MergedText(log, kind, language_code) ==
    LET xml_items == XmlItems(log.addon_xml, kind)
        po_items == get_po_metadata(log.po_index, kind.ctxt)
        primary == IF args.xml_to_po THEN xml_items ELSE po_items
        secondary == IF args.xml_to_po THEN po_items ELSE xml_items
    IN  IF language_code \in Codes(primary) THEN TextOf(primary, language_code)
        ELSE TextOf(secondary, language_code)

\* the lines hold the three lines of a block one after the other
HasBlock(lines, ctxt, msgid, msgstr) ==
    \E j \in 1..(Len(lines) - 2) :
        /\ lines[j] = POTPL_MSGCTXT(ctxt)
        /\ lines[j + 1] = POTPL_MSGID(msgid)
        /\ lines[j + 2] = POTPL_MSGSTR(msgstr)

\* the po files of the index read in which an anchor is found once the managed
\* entries are taken out
WithAnchor(po_index) ==
    { i \in 1..Len(po_index) :
        get_po_insert_index(RemovePoLinesOfFile(po_index[i].content_lines)) > 0 }

\* C15: after xml_to_po, for every kind that has a merged en_GB text and every
\* po file in which an anchor is found, the po file built holds a block of that
\* kind whose msgid is the en_GB text (escaped for po); its msgstr is empty in
\* the en_GB file, the merged text of the file's language when there is one,
\* and empty otherwise.
C15_BlockPerKindAndCatalog ==
    xtp_log # <<>> =>
        \A kind \in Kinds :
            MergedText(xtp_log, kind, LANG_EN_GB) # <<>> =>
                \A i \in WithAnchor(xtp_log.po_index) :
                    HasBlock(xtp_log.payload_index[i].content_lines, kind.ctxt,
                             EscapePoString(MergedText(xtp_log, kind, LANG_EN_GB)),
                             IF xtp_log.po_index[i].language_code = LANG_EN_GB THEN <<>>
                             ELSE EscapePoString(
                                      MergedText(xtp_log, kind,
                                                 xtp_log.po_index[i].language_code)))

\* C15 witness: xml_to_po has built, for a kind with a merged en_GB text, an
\* en_GB file with an anchor and a file of another language, with an anchor,
\* that has a merged text of its own other than the en_GB text.
C15_Witness ==
    /\ xtp_log # <<>>
    /\ \E kind \in Kinds :
           /\ MergedText(xtp_log, kind, LANG_EN_GB) # <<>>
           /\ \E i \in WithAnchor(xtp_log.po_index) :
                  /\ xtp_log.po_index[i].language_code # LANG_EN_GB
                  /\ MergedText(xtp_log, kind, xtp_log.po_index[i].language_code) # <<>>
                  /\ MergedText(xtp_log, kind, xtp_log.po_index[i].language_code)
                         # MergedText(xtp_log, kind, LANG_EN_GB)
           /\ \E i \in WithAnchor(xtp_log.po_index) :
                  xtp_log.po_index[i].language_code = LANG_EN_GB

\* a line of one of the four kinds: it holds the opening tag of the kind
OpeningTags == { S_SUMMARY_OPEN, S_DESCRIPTION_OPEN, S_DISCLAIMER_OPEN, S_LIFECYCLESTATE_SP }

OfManagedKind(line) == \E tag \in OpeningTags : Contains(line, tag)

\* the lines that are of none of the four kinds, in their order
Unmanaged(lines) ==
    LET Other(line) == ~ OfManagedKind(line)
    IN  SelectSeq(lines, Other)

\* C16: po_to_xml keeps every line that is of none of the four kinds: the list
\* of lines it built, with the rendered metadata lines taken out, is the list
\* of lines read with the lines of the four kinds taken out, in the same order
\* and with the same content.
C16_UnmanagedLinesKept ==
    (ptx_log # <<>> /\ ~ ptx_log.raised) =>
        Unmanaged(ptx_log.payload) = Unmanaged(ptx_log.content_lines)

\* C16 witness: po_to_xml has written an addon.xml that held lines of the four
\* kinds and other lines, with lines rendered in between the other lines.
C16_Witness ==
    /\ ptx_log # <<>> /\ ~ ptx_log.raised /\ ptx_log.written
    /\ Unmanaged(ptx_log.content_lines) # ptx_log.content_lines
    /\ \E i \in 2..(Len(ptx_log.payload) - 1) :
           /\ OfManagedKind(ptx_log.payload[i])
           /\ ~ OfManagedKind(ptx_log.payload[i - 1])
           /\ ~ OfManagedKind(ptx_log.payload[Len(ptx_log.payload)])

\* the place of a line's kind in the order summary, description, disclaimer,
\* lifecyclestate
KindRank(line) ==
    IF Contains(line, S_SUMMARY_OPEN) THEN 0
    ELSE IF Contains(line, S_DESCRIPTION_OPEN) THEN 1
    ELSE IF Contains(line, S_DISCLAIMER_OPEN) THEN 2
    ELSE 3

\* the text between the quotes of the first lang= attribute of a line
LangOfLine(line) ==
    LET at == CHOOSE i \in 1..Len(line) :
                  /\ IsPrefixAt(line, i, S_LANG_EQ)
                  /\ \A j \in 1..(i - 1) : ~ IsPrefixAt(line, j, S_LANG_EQ)
        from == at + Len(S_LANG_EQ) + 1
    IN  SubSeq(line, from, FirstIn(line, from, Quotes) - 1)

\* the positions of the lines of the four kinds
ManagedPositions(lines) == { i \in 1..Len(lines) : OfManagedKind(lines[i]) }

\* C17: in the lines po_to_xml built, the rendered lines are one run of
\* neighbouring lines that starts at the insert index, the kinds come in the
\* order summary, description, disclaimer, lifecyclestate, and within a kind
\* the language codes ascend.
C17_RenderedRunInOrder ==
    (ptx_log # <<>> /\ ~ ptx_log.raised) =>
        LET lines == ptx_log.payload
            at == ManagedPositions(lines)
            insert_index ==
                get_xml_insert_index(
                    [content_lines |-> Unmanaged(ptx_log.content_lines)]).value
        IN  /\ \A i \in at : i > insert_index /\ i <= insert_index + Cardinality(at)
            /\ \A i, j \in at :
                   i < j =>
                       /\ KindRank(lines[i]) <= KindRank(lines[j])
                       /\ KindRank(lines[i]) = KindRank(lines[j]) =>
                              \/ LangOfLine(lines[i]) = LangOfLine(lines[j])
                              \/ StrLess(LangOfLine(lines[i]), LangOfLine(lines[j]))

\* C17 witness: po_to_xml has built lines of two kinds, and for one kind lines
\* of two languages, from po files read in descending order of language code.
C17_Witness ==
    /\ ptx_log # <<>> /\ ~ ptx_log.raised
    /\ \E i, j \in ManagedPositions(ptx_log.payload) :
           KindRank(ptx_log.payload[i]) # KindRank(ptx_log.payload[j])
    /\ \E i, j \in ManagedPositions(ptx_log.payload) :
           /\ KindRank(ptx_log.payload[i]) = KindRank(ptx_log.payload[j])
           /\ LangOfLine(ptx_log.payload[i]) # LangOfLine(ptx_log.payload[j])
    /\ \E a, b \in 1..Len(ptx_log.po_index) :
           /\ a < b
           /\ StrLess(ptx_log.po_index[b].language_code, ptx_log.po_index[a].language_code)

\* the lines that hold the opening tag of a lifecyclestate element
LifecyclestateLines(lines) ==
    LET Is(line) == Contains(line, S_LIFECYCLESTATE_SP)
    IN  SelectSeq(lines, Is)

\* the line carries the attribute type="<type>"
CarriesType(line, type) == Contains(line, S_TYPE_EQ \o <<"\"">> \o type \o <<"\"">>)

\* C23: when the addon.xml read holds no lifecyclestate element, po_to_xml
\* builds no lifecyclestate line, also when po files hold 'Addon
\* Lifecyclestate' entries; when it builds lifecyclestate lines, each carries
\* the type found in the addon.xml read.
C23_LifecyclestateOnlyWithElement ==
    (ptx_log # <<>> /\ ~ ptx_log.raised) =>
        LET type == get_lifecyclestate_type([content |-> Join(ptx_log.content_lines)])
            built == LifecyclestateLines(ptx_log.payload)
        IN  /\ LifecyclestateLines(ptx_log.content_lines) = <<>> => built = <<>>
            /\ \A i \in 1..Len(built) : type # None /\ CarriesType(built[i], type)

\* the kinds with the text xml_remove_elements looks for in a line and the
\* closing tag of the element
KindTags == {
    [re |-> RE_SUMMARY, ctxt |-> CTXT_SUMMARY,
     open |-> S_SUMMARY_OPEN, close |-> S_SUMMARY_CLOSE],
    [re |-> RE_DESCRIPTION, ctxt |-> CTXT_DESCRIPTION,
     open |-> S_DESCRIPTION_OPEN, close |-> S_DESCRIPTION_CLOSE],
    [re |-> RE_DISCLAIMER, ctxt |-> CTXT_DISCLAIMER,
     open |-> S_DISCLAIMER_OPEN, close |-> S_DISCLAIMER_CLOSE],
    [re |-> RE_LIFECYCLESTATE, ctxt |-> CTXT_LIFECYCLESTATE,
     open |-> S_LIFECYCLESTATE_SP, close |-> S_LIFECYCLESTATE_CLOSE] }

\* the line holds the element of an item: its language as the lang attribute
\* and its body before the closing tag
HoldsItem(line, item, close) ==
    /\ \E q \in Quotes : Contains(line, S_LANG_EQ \o <<q>> \o item[1] \o <<q>>)
    /\ Contains(line, <<">">> \o item[2] \o close)

\* every line of a kind that xml_remove_elements drops from content_lines
\* holds an item po_to_xml extracted for that kind from the same addon.xml
DeletedLinesExtracted(content_lines) ==
    \A i \in 1..Len(content_lines) :
        \A kind \in KindTags :
            Contains(content_lines[i], kind.open) =>
                LET items == XmlItems([content |-> Join(content_lines)], kind)
                IN  \E j \in 1..Len(items) : HoldsItem(content_lines[i], items[j], kind.close)

\* C24: every line of the addon.xml that xml_remove_elements deletes in
\* po_to_xml holds a (language, body) the extraction of its kind returned
\* before the deletion.
C24_DeletedLinesWereExtracted ==
    ptx_log # <<>> => DeletedLinesExtracted(ptx_log.content_lines)

\* the lines hold an entry of the context: a line that starts with its msgctxt
HasEntryOf(lines, ctxt) ==
    \E i \in 1..Len(lines) : StartsWith(lines[i], MsgctxtTarget(ctxt))

\* C25: xml_to_po deletes no entry of a managed kind from a po file without
\* putting a block of the same msgctxt into that file: a po file that held an
\* entry of a kind when it was read holds one in the lines built for it, also
\* when the kind has no en_GB value in the addon.xml nor in the po files.
C25_EntriesPutBack ==
    xtp_log # <<>> =>
        \A index \in 1..Len(xtp_log.po_index) :
            \A kind \in Kinds :
                HasEntryOf(xtp_log.po_index[index].content_lines, kind.ctxt) =>
                    HasEntryOf(xtp_log.payload_index[index].content_lines, kind.ctxt)

(***************************************************************************)
(* Claims about merge_items.                                               *)
(***************************************************************************)
\* C5 as stated: for any two lists, every language code of A or B occurs exactly
\* once in merge_items(A, B), and a code of A carries A's text.
C5_UnionExactlyOnce ==
    mrg_done =>
        \A code \in Codes(mrg_one) \cup Codes(mrg_two) :
            /\ CountCode(mrg_payload, code) = 1
            /\ code \in Codes(mrg_one) =>
                   \A i \in 1..Len(mrg_payload) :
                       mrg_payload[i][1] = code =>
                           \E j \in 1..Len(mrg_one) : mrg_one[j] = mrg_payload[i]

\* C5 amended: merge_items(A, B) starts with A unchanged, holds exactly the
\* language codes of A and B, holds a code as often as A does when A has it and
\* once when only B has it, and a code of A carries only A's texts.
C5_UnionLeftBiased ==
    mrg_done =>
        /\ Len(mrg_payload) >= Len(mrg_one)
        /\ SubSeq(mrg_payload, 1, Len(mrg_one)) = mrg_one
        /\ Codes(mrg_payload) = Codes(mrg_one) \cup Codes(mrg_two)
        /\ \A code \in Codes(mrg_payload) :
               /\ CountCode(mrg_payload, code) =
                      IF code \in Codes(mrg_one) THEN CountCode(mrg_one, code) ELSE 1
               /\ code \in Codes(mrg_one) =>
                      \A i \in 1..Len(mrg_payload) :
                          mrg_payload[i][1] = code =>
                              \E j \in 1..Len(mrg_one) : mrg_one[j] = mrg_payload[i]

\* C5 witness: a merge where both lists hold a code with different texts and the
\* second list brings a code the first does not have.
C5_Witness ==
    /\ mrg_done
    /\ \E i \in 1..Len(mrg_one), j \in 1..Len(mrg_two) :
           mrg_one[i][1] = mrg_two[j][1] /\ mrg_one[i][2] # mrg_two[j][2]
    /\ \E j \in 1..Len(mrg_two) : mrg_two[j][1] \notin Codes(mrg_one)

(***************************************************************************)
(* Claims about escape_characters.                                         *)
(***************************************************************************)
\* the character entity the xml destination is documented to give a character
Entity(c) ==
    CASE c = "\"" -> S_QUOT
      [] c = "'" -> S_APOS
      [] c = "<" -> S_LT
      [] c = ">" -> S_GT
      [] c = "&" -> S_AMP
      [] OTHER -> <<c>>

RECURSIVE EntityPerCharacter(_)
EntityPerCharacter(string) ==
    IF string = <<>> THEN <<>>
    ELSE Entity(Head(string)) \o EntityPerCharacter(Tail(string))

\* C6 as stated: escaping for xml what was escaped for po gives the text back,
\* and so does escaping for po what was escaped for xml.
C6_EscaperRoundTrip ==
    (esc_trace = <<"po", "xml">> \/ esc_trace = <<"xml", "po">>) =>
        esc_value = esc_input

\* C7 as stated: the xml destination gives every character its own entity and
\* escapes no entity it has just introduced.
C7_XmlEntityPerCharacter ==
    esc_trace = <<"xml">> =>
        esc_value[1][2] = EntityPerCharacter(esc_input[1][2])

(***************************************************************************)
(* Claims about the po line functions.                                     *)
(***************************************************************************)
\* the four contexts in the order of the fields
FieldOrder == <<CTXT_SUMMARY, CTXT_DESCRIPTION, CTXT_DISCLAIMER, CTXT_LIFECYCLESTATE>>

\* the place in FieldOrder of the context a msgctxt line names, 0 for a line
\* that names none of them
FieldRank(line) ==
    LET hits == { k \in 1..Len(FieldOrder) : StartsWith(line, MsgctxtTarget(FieldOrder[k])) }
    IN  IF hits = {} THEN 0 ELSE CHOOSE k \in hits : TRUE

\* the lines that are not blank
NonBlankLines(lines) ==
    LET NotBlank(line) == ~ IsBlank(line)
    IN  SelectSeq(lines, NotBlank)

\* lines, blank lines aside, are blocks of three: msgctxt, msgid, msgstr
GivenAsBlocks(lines) ==
    LET kept == NonBlankLines(lines)
    IN  /\ Len(kept) % 3 = 0
        /\ \A g \in 1..(Len(kept) \div 3) :
               /\ StartsWith(kept[3 * g - 2], S_MSGCTXT_Q)
               /\ StartsWith(kept[3 * g - 1], S_MSGID)
               /\ StartsWith(kept[3 * g], S_MSGSTR)

\* the blocks of three of lines that hold no blank line
BlocksOf(kept) ==
    [g \in 1..(Len(kept) \div 3) |-> <<kept[3 * g - 2], kept[3 * g - 1], kept[3 * g]>>]

\* how many times a block occurs among blocks
CountBlock(blocks, block) == Cardinality({ g \in 1..Len(blocks) : blocks[g] = block })

\* C18: format_po_lines, given blocks in any order, returns four lines per
\* block of a recognized context: the three lines of the block and a blank
\* line; the blocks come in the order summary, description, disclaimer,
\* lifecyclestate; every given block of a recognized context is returned as
\* many times as it was given.
C18_FormatPoLinesFieldOrder ==
    (pol_call = "format_po_lines" /\ GivenAsBlocks(pol_lines)) =>
        LET given == BlocksOf(NonBlankLines(pol_lines))
            count == Len(pol_result) \div 4
            returned == [g \in 1..count |-> SubSeq(pol_result, 4 * g - 3, 4 * g - 1)]
        IN  /\ Len(pol_result) = 4 * count
            /\ \A g \in 1..count :
                   /\ pol_result[4 * g] = <<"\n">>
                   /\ FieldRank(returned[g][1]) > 0
                   /\ g > 1 => FieldRank(returned[g - 1][1]) <= FieldRank(returned[g][1])
            /\ \A g \in 1..Len(given) :
                   FieldRank(given[g][1]) > 0 =>
                       CountBlock(returned, given[g]) = CountBlock(given, given[g])
            /\ count = Cardinality({ g \in 1..Len(given) : FieldRank(given[g][1]) > 0 })

\* C18 witness: format_po_lines was given a description block before a summary
\* block, and returned the summary block first.
C18_Witness ==
    /\ pol_call = "format_po_lines" /\ GivenAsBlocks(pol_lines)
    /\ LET given == BlocksOf(NonBlankLines(pol_lines))
       IN  \E g, h \in 1..Len(given) :
               /\ g < h
               /\ FieldRank(given[g][1]) = 2 /\ FieldRank(given[h][1]) = 1
    /\ FieldRank(pol_result[1]) = 1

\* the first line after line i that starts with prefix, Len(lines) + 1 if none
FirstStartingAfter(lines, i, prefix) ==
    LET hits == { k \in (i + 1)..Len(lines) : StartsWith(lines[k], prefix) }
    IN  IF hits = {} THEN Len(lines) + 1 ELSE CHOOSE k \in hits : \A h \in hits : k <= h

\* the last line of the run of continuation lines that follows line i, i if
\* none follows
LastContinuationAfter(lines, i) ==
    LET stops == { k \in (i + 1)..Len(lines) : ~ StartsWith(lines[k], <<"\"">>) }
    IN  IF stops = {} THEN Len(lines) ELSE (CHOOSE k \in stops : \A h \in stops : k <= h) - 1

\* the last line of the entry whose msgctxt line is line c: the entry runs
\* through its msgstr line and the continuation lines of it, and takes the
\* blank line directly after; an entry with no msgid or no msgstr line runs to
\* the end
EntryEnd(lines, c) ==
    LET msgstr_at == FirstStartingAfter(lines, FirstStartingAfter(lines, c, S_MSGID), S_MSGSTR)
        last == LastContinuationAfter(lines, msgstr_at)
    IN  IF msgstr_at > Len(lines) THEN Len(lines)
        ELSE IF last < Len(lines) /\ IsBlank(lines[last + 1]) THEN last + 1
        ELSE last

\* the positions of the lines of the entries that begin with one of the four
\* managed msgctxt lines
InManagedEntry(lines) ==
    { k \in 1..Len(lines) :
        \E c \in 1..k : FieldRank(lines[c]) > 0 /\ k <= EntryEnd(lines, c) }

\* the lines at the positions not in out, in their order
RECURSIVE LinesOutside(_, _, _)
LinesOutside(lines, out, k) ==
    IF k > Len(lines) THEN <<>>
    ELSE (IF k \in out THEN <<>> ELSE <<lines[k]>>) \o LinesOutside(lines, out, k + 1)

\* a can be had from b by taking lines out
RECURSIVE IsSubsequence(_, _)
IsSubsequence(a, b) ==
    IF a = <<>> THEN TRUE
    ELSE IF b = <<>> THEN FALSE
    ELSE IF Head(a) = Head(b) THEN IsSubsequence(Tail(a), Tail(b))
    ELSE IsSubsequence(a, Tail(b))

\* no managed msgctxt line comes directly after the last line of a managed
\* entry that has no blank line after it
EntriesApart(lines) ==
    \A c \in 2..Len(lines) :
        FieldRank(lines[c]) > 0 =>
            \/ IsBlank(lines[c - 1])
            \/ \A b \in 1..(c - 1) : FieldRank(lines[b]) > 0 => EntryEnd(lines, b) # c - 1

\* C19: remove_po_lines takes out only lines of entries that begin with one of
\* the four managed msgctxt lines (the msgctxt line through the msgstr line
\* and its continuation lines, and the blank line directly after): the lines
\* returned are lines of the input in their order, and every line outside
\* those entries is among them, in its order.  When no managed entry follows
\* another without a blank line between them, the lines returned are exactly
\* the lines outside those entries.
C19_RemovePoLinesFrame ==
    pol_call = "remove_po_lines" =>
        LET others == LinesOutside(pol_lines, InManagedEntry(pol_lines), 1)
        IN  /\ IsSubsequence(pol_result, pol_lines)
            /\ IsSubsequence(others, pol_result)
            /\ EntriesApart(pol_lines) => pol_result = others

\* C19 witness: remove_po_lines was given a managed entry with a continuation
\* line and a blank line after it, between lines of other entries, and
\* returned fewer lines than it was given, other lines among them.
C19_Witness ==
    /\ pol_call = "remove_po_lines"
    /\ \E c \in 2..Len(pol_lines) :
           /\ FieldRank(pol_lines[c]) > 0
           /\ c - 1 \notin InManagedEntry(pol_lines)
           /\ EntryEnd(pol_lines, c) < Len(pol_lines)
           /\ IsBlank(pol_lines[EntryEnd(pol_lines, c)])
           /\ StartsWith(pol_lines[EntryEnd(pol_lines, c) - 1], <<"\"">>)
    /\ pol_result # <<>>
    /\ Len(pol_result) < Len(pol_lines)

\* the index Python gives the line at position k of a list
ZeroBased(k) == k - 1

\* the position of the first line that starts with msgstr "", Len(lines) + 1
\* if there is none
FirstEmptyMsgstr(lines) == FirstStartingAfter(lines, 0, S_MSGSTR_EMPTY)

\* C20 as stated: for lines whose first msgstr "" line is followed by
\* continuation lines, get_po_insert_index returns the index of the line right
\* after the last of these continuation lines (0-based: the index of the last
\* continuation line plus one).
C20_IndexAfterLastContinuation ==
    (/\ pol_call = "get_po_insert_index"
     /\ FirstEmptyMsgstr(pol_lines) <= Len(pol_lines)
     /\ LastContinuationAfter(pol_lines, FirstEmptyMsgstr(pol_lines))
            > FirstEmptyMsgstr(pol_lines)) =>
        pol_result =
            ZeroBased(LastContinuationAfter(pol_lines, FirstEmptyMsgstr(pol_lines))) + 1

\* C20 amended: get_po_insert_index looks, after the first line that starts
\* with msgstr "", for the first line that starts with a quote, and after it
\* for the first line that does not (the line that ends the continuation
\* lines); it returns the 0-based index of that line plus one, which is the
\* index of the last continuation line plus two, and -1 when one of the three
\* lines is not found.
C20_IndexAfterClosingLine ==
    pol_call = "get_po_insert_index" =>
        LET quote_at == FirstStartingAfter(pol_lines, FirstEmptyMsgstr(pol_lines), <<"\"">>)
            last == LastContinuationAfter(pol_lines, quote_at)
        IN  pol_result = IF quote_at > Len(pol_lines) \/ last >= Len(pol_lines) THEN -1
                         ELSE ZeroBased(last) + 2

\* C20 witness: get_po_insert_index was given a header with a continuation
\* line, a blank line and more lines, and returned the index after the blank
\* line.
C20_Witness ==
    /\ pol_call = "get_po_insert_index"
    /\ Len(pol_lines) > 4
    /\ SubSeq(pol_lines, 1, 4) = <<P_MSGID_EMPTY, P_MSGSTR_EMPTY, P_LANGUAGE, NL>>
    /\ pol_result = 4

(***************************************************************************)
(* Claims about insert_po_lines.                                           *)
(***************************************************************************)
\* insert_po_lines has been called
Inserted == ins_argument # <<>>

\* the files of the index given for which get_po_insert_index finds no anchor
WithoutAnchor(po_index) ==
    { index \in 1..Len(po_index) : get_po_insert_index(po_index[index].content_lines) = -1 }

\* C21: when get_po_insert_index returns -1 for a catalog, insert_po_lines
\* skips it: the lines returned for that catalog are the lines passed in, with
\* no rendered block added.
C21_NoAnchorSkipsInsertion ==
    Inserted =>
        \A index \in WithoutAnchor(ins_po_index) :
            ins_payload[index].content_lines = ins_po_index[index].content_lines

\* the files of the index given into which insert_po_lines inserts blocks
InsertedInto(po_index, po_lines) ==
    { index \in 1..Len(po_index) : InsertLinesOf(po_index[index], po_lines) # <<>> }

\* the line ends with one newline character and no more
EndsWithOneNewline(line) ==
    /\ line # <<>>
    /\ line[Len(line)] = "\n"
    /\ Len(line) > 1 => line[Len(line) - 1] # "\n"

\* C22: for every catalog insert_po_lines inserts blocks into, the lines
\* returned do not end with a blank line and the last of them ends with
\* exactly one newline, also when the last line given had none.
C22_EndsWithOneNewline ==
    Inserted =>
        \A index \in InsertedInto(ins_po_index, ins_po_lines) :
            LET lines == ins_payload[index].content_lines
            IN  /\ lines # <<>>
                /\ ~ IsBlank(lines[Len(lines)])
                /\ EndsWithOneNewline(lines[Len(lines)])

=============================================================================
